---------------------------- MODULE Spec2Model ----------------------------
(***************************************************************************)
(* Model of the recommendation pipeline of BWIC-backend:                    *)
(*   src/src/utils/recommendation.ts        applyHardFilters, scoreProperty *)
(*   src/src/controller/recommendation.controller.ts   getRecommendations   *)
(*   src/src/utils/geocoding.ts             geocodeLocation                 *)
(*                                                                         *)
(* Representation.                                                         *)
(*   - A JavaScript number x is the integer x * Scale (fixed point, two     *)
(*     decimals, the resolution of round2).  NaN is the value NaN below.    *)
(*   - An optional value (undefined / null / column NULL) is None == <<>>;  *)
(*     a present value v is Some(v) == <<v>>.                               *)
(*   - A string is a sequence of one-character strings.                     *)
(***************************************************************************)
EXTENDS Integers, Sequences, FiniteSets, TLC

VARIABLES
    \* ---- hard-filter stage, exercised on its own (SpecFilter) ----
    fProps,       \* the listing sequence handed to applyHardFilters
    fMustHave,    \* the sanitized must-have set
    fPhase,       \* "input" -> "filtered" -> "refiltered" -> "queried"
    fOut,         \* applyHardFilters(fProps, fMustHave)
    fTwice,       \* applyHardFilters(fOut, fMustHave)
    fCandidates,  \* Property.findAll({where}) over fProps as table content
    \* ---- scoring stage, exercised on its own (SpecScore) ----
    sProperty,    \* the listing handed to scoreProperty
    sPreferences, \* the sanitized preference set
    sPhase,       \* "input" -> "scored"
    sResult,      \* scoreProperty(sProperty, sPreferences)
    \* ---- the request handler getRecommendations (Spec) ----
    catalog,      \* rows of the properties table, in the order findAll returns them
    envApiKey,    \* whether process.env.GOOGLE_MAPS_API_KEY is set
    req,          \* per request: the HTTP request (method, query, body)
    pc,           \* per request: "start", "geocoding", "querying" or "done"
    hMustHave,    \* per request: const mustHave
    hPreferences, \* per request: const preferences (mutated by the handler)
    hGeoAnswer,   \* per request: <<>> or <<what geocodeLocation resolved to>>
    hPage,        \* per request: const page
    hLimit,       \* per request: const limit
    hWhere,       \* per request: the WHERE clause handed to findAll
    hCandidates,  \* per request: what findAll resolved to
    hRanked,      \* per request: const ranked
    response,     \* per request: the response sent (Undefined before)
    geoCalls,     \* per request: calls of geocodeLocation
    catalogCalls, \* per request: calls of Property.findAll
    filterRuns,   \* per request: calls of applyHardFilters
    scoreRuns     \* per request: calls of scoreProperty

filterVars == <<fProps, fMustHave, fPhase, fOut, fTwice, fCandidates>>
scoreVars == <<sProperty, sPreferences, sPhase, sResult>>

localVars == <<hMustHave, hPreferences, hGeoAnswer, hPage, hLimit, hWhere, hCandidates, hRanked>>
callVars == <<geoCalls, catalogCalls, filterRuns, scoreRuns>>
handlerVars == <<catalog, envApiKey, req, pc, localVars, response, callVars>>

vars == <<filterVars, scoreVars, handlerVars>>

---------------------------------------------------------------------------
(* Numbers, optionals, strings                                             *)

Scale == 100

None == <<>>
Some(v) == <<v>>
IsSome(o) == o # <<>>
Val(o) == o[1]

\* String.prototype.toLowerCase over the model's alphabet
Lower(c) ==
    CASE c = "A" -> "a"
      [] c = "B" -> "b"
      [] c = "K" -> "k"
      [] OTHER -> c

toLowerCase(s) == [i \in 1..Len(s) |-> Lower(s[i])]

\* String.prototype.includes
includes(s, t) ==
    \E i \in 0..(Len(s) - Len(t)) : SubSeq(s, i + 1, i + Len(t)) = t

\* JavaScript truthiness of an optional string: undefined and "" are falsy
Truthy(o) == IsSome(o) /\ Val(o) # <<>>

---------------------------------------------------------------------------
(* JavaScript values as they arrive in req.query and req.body              *)

Undefined == [t |-> "undefined"]
NaN == [t |-> "NaN"]
Num(n) == [t |-> "number", n |-> n]
Str(s) == [t |-> "string", s |-> s]
Arr(xs) == [t |-> "array", xs |-> xs]
JsTrue == [t |-> "boolean"]

IsNumber(x) == x.t = "number"
IsNaN(x) == x.t = "NaN"
IsString(x) == x.t = "string"
IsArray(x) == x.t = "array"

\* an optional number as the JavaScript value it is
ToJs(o) == IF IsSome(o) THEN Num(Val(o)) ELSE Undefined
\* an optional string as the JavaScript value it is
ToJsString(o) == IF IsSome(o) THEN Str(Val(o)) ELSE Undefined

Digits == { "0", "1", "2", "3", "4", "5", "6", "7", "8", "9" }

DigitVal(c) ==
    CASE c = "0" -> 0 [] c = "1" -> 1 [] c = "2" -> 2 [] c = "3" -> 3 [] c = "4" -> 4
      [] c = "5" -> 5 [] c = "6" -> 6 [] c = "7" -> 7 [] c = "8" -> 8 [] c = "9" -> 9

RECURSIVE DigitsPrefixLen(_)
DigitsPrefixLen(s) ==
    IF s # <<>> /\ Head(s) \in Digits THEN 1 + DigitsPrefixLen(Tail(s)) ELSE 0

\* the value of a run of digits as an integer
RECURSIVE DigitsValue(_)
DigitsValue(s) ==
    IF s = <<>> THEN 0
    ELSE 10 * DigitsValue(SubSeq(s, 1, Len(s) - 1)) + DigitVal(s[Len(s)])

\* the value of the digits after the decimal point, at the model's resolution
RECURSIVE FractionValue(_, _)
FractionValue(s, unit) ==
    IF s = <<>> \/ unit = 0 THEN 0
    ELSE DigitVal(Head(s)) * unit + FractionValue(Tail(s), unit \div 10)

RECURSIVE TrimStart(_)
TrimStart(s) == IF s # <<>> /\ Head(s) = " " THEN TrimStart(Tail(s)) ELSE s

RECURSIVE TrimEnd(_)
TrimEnd(s) ==
    IF s # <<>> /\ s[Len(s)] = " " THEN TrimEnd(SubSeq(s, 1, Len(s) - 1)) ELSE s

\* String.prototype.trim
trim(s) == TrimEnd(TrimStart(s))

\* the length of the digits that follow a decimal point at the head of s
FractionLen(s) ==
    IF s # <<>> /\ Head(s) = "." THEN DigitsPrefixLen(Tail(s)) ELSE 0

\* the unsigned literal at the head of body: intLen digits, then, when rest
\* starts with a point, the point and fracLen digits
UnsignedLiteral(body, intLen, rest, fracLen) ==
    [ found |-> intLen + fracLen > 0,
      length |-> intLen + (IF rest # <<>> /\ Head(rest) = "." /\ intLen + fracLen > 0
                           THEN 1 + fracLen ELSE 0),
      value |-> DigitsValue(SubSeq(body, 1, intLen)) * Scale
                  + FractionValue(SubSeq(rest, 2, fracLen + 1), Scale \div 10) ]

UnsignedRest(body, intLen, rest) == UnsignedLiteral(body, intLen, rest, FractionLen(rest))

UnsignedFrom(body, intLen) ==
    UnsignedRest(body, intLen, SubSeq(body, intLen + 1, Len(body)))

UnsignedPrefix(body) == UnsignedFrom(body, DigitsPrefixLen(body))

SignLen(s) == IF s # <<>> /\ Head(s) \in { "-", "+" } THEN 1 ELSE 0

Signed(signLen, negative, lit) ==
    [ found |-> lit.found,
      length |-> signLen + lit.length,
      value |-> IF negative THEN -lit.value ELSE lit.value ]

\* the longest prefix of s that is a decimal literal: sign, digits, point, digits
DecimalPrefix(s) ==
    Signed(SignLen(s), s # <<>> /\ Head(s) = "-",
           UnsignedPrefix(SubSeq(s, SignLen(s) + 1, Len(s))))

NumberOrNaN(lit) == IF lit.found THEN Num(lit.value) ELSE NaN

\* Number.parseFloat: leading white space skipped, the longest decimal prefix
\* parsed, NaN when there is none
parseFloat(s) == NumberOrNaN(DecimalPrefix(TrimStart(s)))

WholeNumberOrNaN(t, lit) ==
    IF t = <<>> THEN Num(0)
    ELSE IF lit.found /\ lit.length = Len(t) THEN Num(lit.value)
    ELSE NaN

WholeLiteral(t) == WholeNumberOrNaN(t, DecimalPrefix(t))

\* ToNumber of a string (what Math.trunc applies): the whole trimmed string
\* must be a decimal literal; the empty string is 0
StringToNumber(s) == WholeLiteral(trim(s))

\* ToNumber of a value
ToNumber(x) ==
    CASE IsNumber(x) -> x
      [] IsNaN(x) -> NaN
      [] IsString(x) -> StringToNumber(x.s)
      [] OTHER -> NaN

\* JavaScript truthiness: undefined, NaN, 0 and "" are falsy
IsTruthy(x) ==
    CASE IsNumber(x) -> x.n # 0
      [] IsString(x) -> x.s # <<>>
      [] OTHER -> FALSE

Truncated(n) ==
    IF IsNaN(n) THEN NaN
    ELSE IF n.n >= 0 THEN Num((n.n \div Scale) * Scale)
    ELSE Num(-(((-n.n) \div Scale) * Scale))

\* Math.trunc
MathTrunc(x) == Truncated(ToNumber(x))

\* Math.max and Math.min of two numbers: NaN if either is NaN
MathMax(x, y) ==
    IF IsNaN(x) \/ IsNaN(y) THEN NaN ELSE Num(IF x.n >= y.n THEN x.n ELSE y.n)
MathMin(x, y) ==
    IF IsNaN(x) \/ IsNaN(y) THEN NaN ELSE Num(IF x.n <= y.n THEN x.n ELSE y.n)

---------------------------------------------------------------------------
(* Hard-filter stage: src/src/utils/recommendation.ts:87-151               *)

\* lines 92-97: the location constraint rejects the listing
RejectsLocation(property, mustHave) ==
    /\ Truthy(mustHave.location)
    /\ ~includes(toLowerCase(property.location), toLowerCase(Val(mustHave.location)))

\* lines 99-104
RejectsCategory(property, mustHave) ==
    /\ IsSome(mustHave.categoryId)
    /\ property.categoryId # Val(mustHave.categoryId)

RejectsStatus_Substring(property, mustHave) ==
    /\ Truthy(mustHave.status)
    /\ ~includes(toLowerCase(property.status), toLowerCase(Val(mustHave.status)))

\* lines 106-111
RejectsStatus(property, mustHave) ==
    /\ Truthy(mustHave.status)
    /\ toLowerCase(property.status) # toLowerCase(Val(mustHave.status))

\* lines 113-117
RejectsMinPrice(property, mustHave) ==
    /\ IsSome(mustHave.minPrice)
    /\ \/ ~IsSome(property.priceNpr)
       \/ Val(property.priceNpr) < Val(mustHave.minPrice)

\* lines 119-123
RejectsMaxPrice(property, mustHave) ==
    /\ IsSome(mustHave.maxPrice)
    /\ \/ ~IsSome(property.priceNpr)
       \/ Val(property.priceNpr) > Val(mustHave.maxPrice)

\* an absent ROI read as 0
RejectsMinRoi_AbsentAsZero(property, mustHave) ==
    /\ IsSome(mustHave.minRoi)
    /\ (IF IsSome(property.roiPercent) THEN Val(property.roiPercent) ELSE 0)
          < Val(mustHave.minRoi)

\* lines 125-129
RejectsMinRoi(property, mustHave) ==
    /\ IsSome(mustHave.minRoi)
    /\ \/ ~IsSome(property.roiPercent)
       \/ Val(property.roiPercent) < Val(mustHave.minRoi)

\* lines 131-135
RejectsMinArea(property, mustHave) ==
    /\ IsSome(mustHave.minArea)
    /\ \/ ~IsSome(property.areaSqft)
       \/ Val(property.areaSqft) < Val(mustHave.minArea)

\* lines 137-147
RejectsMaxDistance(property, mustHave) ==
    /\ IsSome(mustHave.maxDistanceFromHighway)
    /\ \/ ~IsSome(property.distanceFromHighway)
       \/ Val(property.distanceFromHighway) > Val(mustHave.maxDistanceFromHighway)

\* the callback of properties.filter(...): one early return per constraint
PassesHardFilter(property, mustHave) ==
    IF RejectsLocation(property, mustHave) THEN FALSE
    ELSE IF RejectsCategory(property, mustHave) THEN FALSE
    ELSE IF RejectsStatus(property, mustHave) THEN FALSE
    ELSE IF RejectsMinPrice(property, mustHave) THEN FALSE
    ELSE IF RejectsMaxPrice(property, mustHave) THEN FALSE
    ELSE IF RejectsMinRoi(property, mustHave) THEN FALSE
    ELSE IF RejectsMinArea(property, mustHave) THEN FALSE
    ELSE IF RejectsMaxDistance(property, mustHave) THEN FALSE
    ELSE TRUE

\* a loop that stops one element short of the end
applyHardFilters_SkipsLast(properties, mustHave) ==
    SelectSeq(SubSeq(properties, 1, Len(properties) - 1),
              LAMBDA property : PassesHardFilter(property, mustHave))

\* the passing listings, most recent (last) first
applyHardFilters_Reversed(properties, mustHave) ==
    LET kept == SelectSeq(properties, LAMBDA property : PassesHardFilter(property, mustHave))
    IN  [i \in 1..Len(kept) |-> kept[Len(kept) + 1 - i]]

\* Array.prototype.filter keeps the passing elements in order, in a new array
applyHardFilters(properties, mustHave) ==
    SelectSeq(properties, LAMBDA property : PassesHardFilter(property, mustHave))

---------------------------------------------------------------------------
(* Scoring stage: src/src/utils/recommendation.ts:49-85, 153-326           *)

WeightLocation == 25
WeightPrice == 30
WeightRoi == 15
WeightArea == 15
WeightDistance == 15

\* the WEIGHTS table, as numbers
WEIGHTS ==
    [ location |-> WeightLocation * Scale, price |-> WeightPrice * Scale,
      roi |-> WeightRoi * Scale, area |-> WeightArea * Scale,
      distance |-> WeightDistance * Scale ]

Max(a, b) == IF a >= b THEN a ELSE b
Min(a, b) == IF a <= b THEN a ELSE b
Abs(a) == IF a >= 0 THEN a ELSE -a

\* Math.round of the rational num / den (den > 0): nearest integer, halves up
MathRound(num, den) == (2 * num + den) \div (2 * den)

\* round2 of the rational num / den, where num / den is the number itself:
\* Math.round(value * 100) / 100
round2(num, den) == (MathRound(100 * num, den) * Scale) \div 100

safeRatioScore_NoFloor(weight, deltaNum, deltaDen) ==
    round2(weight * (deltaDen - deltaNum), deltaDen * Scale)

\* weight * Math.max(0, 1 - deltaRatio), rounded; deltaRatio == deltaNum / deltaDen
safeRatioScore(weight, deltaNum, deltaDen) ==
    IF deltaNum >= deltaDen
    THEN round2(0, 1)
    ELSE round2(weight * (deltaDen - deltaNum), deltaDen * Scale)

\* the places of the model (latitude, longitude)
PlaceA == <<2770, 8530>>
PlaceB == <<2775, 8530>>
PlaceC == <<2770, 8550>>

\* the haversine formula with earthRadiusKm = 6371, evaluated at the model's
\* places and rounded to the model's resolution
haversineKm(lat1, lng1, lat2, lng2) ==
    LET from == <<lat1, lng1>>
        to == <<lat2, lng2>>
    IN  CASE from = to -> 0
          [] {from, to} = {PlaceA, PlaceB} -> 556
          [] {from, to} = {PlaceA, PlaceC} -> 1969
          [] {from, to} = {PlaceB, PlaceC} -> 2046

DefaultRadiusKm == 10

NoCriterion_WithEntry ==
    [max |-> 0, entries |-> << [reason |-> "Criterion skipped", points |-> 0] >>]

NoCriterion == [max |-> 0, entries |-> <<>>]

ScoreLocation_TextOnly(property, preferences) ==
    IF Truthy(preferences.location)
    THEN [ max |-> WEIGHTS.location,
           entries |-> << [ reason |-> IF includes(toLowerCase(property.location),
                                                   toLowerCase(Val(preferences.location)))
                              THEN "Location text matched preference"
                              ELSE "Location text did not match preference",
                            points |-> IF includes(toLowerCase(property.location),
                                                   toLowerCase(Val(preferences.location)))
                              THEN WEIGHTS.location ELSE 0 ] >> ]
    ELSE NoCriterion

\* lines 161-225
ScoreLocation(property, preferences) ==
    IF IsSome(preferences.latitude) /\ IsSome(preferences.longitude)
    THEN LET radiusKm ==
                 IF IsSome(preferences.locationRadiusKm)
                    /\ Val(preferences.locationRadiusKm) > 0
                 THEN Val(preferences.locationRadiusKm)
                 ELSE DefaultRadiusKm * Scale
         IN  IF IsSome(property.latitude) /\ IsSome(property.longitude)
             THEN LET distanceKm ==
                          haversineKm(Val(preferences.latitude), Val(preferences.longitude),
                                      Val(property.latitude), Val(property.longitude))
                  IN  [ max |-> WEIGHTS.location,
                        entries |-> << [ reason |-> "Location scored by distance",
                                         points |-> safeRatioScore(WEIGHTS.location,
                                                                   distanceKm, radiusKm) ] >> ]
             ELSE IF Truthy(preferences.location)
             THEN LET matched == includes(toLowerCase(property.location),
                                          toLowerCase(Val(preferences.location)))
                  IN  [ max |-> WEIGHTS.location,
                        entries |-> << [ reason |-> IF matched
                                           THEN "Property coordinates missing, text location fallback matched"
                                           ELSE "Property coordinates missing, text location fallback did not match",
                                         points |-> IF matched THEN WEIGHTS.location ELSE 0 ] >> ]
             ELSE [ max |-> WEIGHTS.location,
                    entries |-> << [ reason |-> "Property coordinates missing, could not score geo-distance",
                                     points |-> 0 ] >> ]
    ELSE IF Truthy(preferences.location)
    THEN LET matched == includes(toLowerCase(property.location),
                                 toLowerCase(Val(preferences.location)))
         IN  [ max |-> WEIGHTS.location,
               entries |-> << [ reason |-> IF matched
                                  THEN "Location text matched preference"
                                  ELSE "Location text did not match preference",
                                points |-> IF matched THEN WEIGHTS.location ELSE 0 ] >> ]
    ELSE NoCriterion

ScorePrice_SkipsAbsent(property, preferences) ==
    IF IsSome(preferences.budget) /\ Val(preferences.budget) > 0
       /\ IsSome(property.priceNpr)
    THEN [ max |-> WEIGHTS.price,
           entries |-> << [ reason |-> "Budget closeness scored against NPR",
                            points |-> safeRatioScore(WEIGHTS.price,
                                           Abs(Val(property.priceNpr)
                                                 - Val(preferences.budget)),
                                           Val(preferences.budget)) ] >> ]
    ELSE NoCriterion

ScorePrice_Signed(property, preferences) ==
    IF IsSome(preferences.budget) /\ Val(preferences.budget) > 0
    THEN [ max |-> WEIGHTS.price,
           entries |-> << [ reason |-> IF ~IsSome(property.priceNpr)
                              THEN "Price missing, could not score budget closeness"
                              ELSE "Budget closeness scored against NPR",
                            points |-> IF ~IsSome(property.priceNpr) THEN 0
                              ELSE safeRatioScore(WEIGHTS.price,
                                       Val(property.priceNpr) - Val(preferences.budget),
                                       Val(preferences.budget)) ] >> ]
    ELSE NoCriterion

\* lines 227-245
ScorePrice(property, preferences) ==
    IF IsSome(preferences.budget) /\ Val(preferences.budget) > 0
    THEN LET price == property.priceNpr
             budget == Val(preferences.budget)
         IN  [ max |-> WEIGHTS.price,
               entries |-> << [ reason |-> IF ~IsSome(price)
                                  THEN "Price missing, could not score budget closeness"
                                  ELSE "Budget closeness scored against NPR",
                                points |-> IF ~IsSome(price) THEN 0
                                  ELSE safeRatioScore(WEIGHTS.price,
                                                      Abs(Val(price) - budget), budget) ] >> ]
    ELSE NoCriterion

ScoreRoi_ZeroActive(property, preferences) ==
    IF IsSome(preferences.roiPercent) /\ Val(preferences.roiPercent) >= 0
    THEN [ max |-> WEIGHTS.roi,
           entries |-> << [ reason |-> "ROI scored against preferred",
                            points |-> IF ~IsSome(property.roiPercent) THEN 0
                              ELSE IF Val(property.roiPercent)
                                        >= Val(preferences.roiPercent)
                              THEN WEIGHTS.roi
                              ELSE round2(WEIGHTS.roi * Max(0, Val(property.roiPercent)),
                                          Val(preferences.roiPercent) * Scale) ] >> ]
    ELSE NoCriterion

\* lines 247-265
ScoreRoi(property, preferences) ==
    IF IsSome(preferences.roiPercent) /\ Val(preferences.roiPercent) > 0
    THEN LET roi == property.roiPercent
             preferred == Val(preferences.roiPercent)
         IN  [ max |-> WEIGHTS.roi,
               entries |-> << [ reason |-> IF ~IsSome(roi)
                                  THEN "ROI missing, could not score ROI preference"
                                  ELSE "ROI scored against preferred",
                                points |-> IF ~IsSome(roi) THEN 0
                                  ELSE IF Val(roi) >= preferred THEN WEIGHTS.roi
                                  ELSE round2(WEIGHTS.roi * Max(0, Val(roi)),
                                              preferred * Scale) ] >> ]
    ELSE NoCriterion

\* lines 267-285
ScoreArea(property, preferences) ==
    IF IsSome(preferences.areaSqft) /\ Val(preferences.areaSqft) > 0
    THEN LET area == property.areaSqft
             preferred == Val(preferences.areaSqft)
         IN  [ max |-> WEIGHTS.area,
               entries |-> << [ reason |-> IF ~IsSome(area)
                                  THEN "Area missing, could not score area preference"
                                  ELSE "Area closeness scored against",
                                points |-> IF ~IsSome(area) THEN 0
                                  ELSE safeRatioScore(WEIGHTS.area,
                                                      Abs(Val(area) - preferred), preferred) ] >> ]
    ELSE NoCriterion

ScoreDistance_PenalizesCloser(property, preferences) ==
    IF IsSome(preferences.maxDistanceFromHighway)
       /\ Val(preferences.maxDistanceFromHighway) > 0
    THEN [ max |-> WEIGHTS.distance,
           entries |-> << [ reason |-> IF ~IsSome(property.distanceFromHighway)
                              THEN "Distance from highway missing, could not score distance preference"
                              ELSE "Distance scored against preferred max",
                            points |-> IF ~IsSome(property.distanceFromHighway) THEN 0
                              ELSE safeRatioScore(WEIGHTS.distance,
                                       Abs(Val(property.distanceFromHighway)
                                             - Val(preferences.maxDistanceFromHighway)),
                                       Val(preferences.maxDistanceFromHighway)) ] >> ]
    ELSE NoCriterion

\* lines 287-315
ScoreDistance(property, preferences) ==
    IF IsSome(preferences.maxDistanceFromHighway)
       /\ Val(preferences.maxDistanceFromHighway) > 0
    THEN LET distance == property.distanceFromHighway
             bound == Val(preferences.maxDistanceFromHighway)
         IN  [ max |-> WEIGHTS.distance,
               entries |-> << [ reason |-> IF ~IsSome(distance)
                                  THEN "Distance from highway missing, could not score distance preference"
                                  ELSE "Distance scored against preferred max",
                                points |-> IF ~IsSome(distance) THEN 0
                                  ELSE IF Val(distance) <= bound THEN WEIGHTS.distance
                                  ELSE safeRatioScore(WEIGHTS.distance,
                                                      Val(distance) - bound, bound) ] >> ]
    ELSE NoCriterion

RECURSIVE SumPoints(_)
SumPoints(entries) ==
    IF entries = <<>> THEN 0 ELSE Head(entries).points + SumPoints(Tail(entries))

\* the points that change the running score (adding 0 leaves it as it is),
\* in the order of lines 211-307
AddedPoints(explanation) ==
    SelectSeq([i \in 1..Len(explanation) |-> explanation[i].points],
              LAMBDA points : points # 0)

\* The running score (let score = 0, line 158; score += points) is an
\* IEEE-754 binary64 number, and so is every points value. The sums of the
\* model's point values, in hundredths, that come out below the double nearest
\* to their decimal total: 0.15 + 0.3 is 0.44999999999999996
ShortSums == { << 15, 30 >> }

\* line 318: maxPossible === 0 ? 0 : Math.round((score / maxPossible) * 100),
\* of the running score whose decimal total is score. A binary64 sum is within
\* 1e-13 of the decimal total, so the result is the exact quotient's rounding
\* unless that quotient ends in one half; there a short sum gives a product
\* below the half (0.44999999999999996 / 30 * 100 is 1.4999999999999998) and
\* Math.round goes down.
matchPercentage(explanation, score, maxPossible) ==
    IF maxPossible = 0 THEN 0
    ELSE IF /\ AddedPoints(explanation) \in ShortSums
            /\ (2 * score * 100) % (2 * maxPossible) = maxPossible
    THEN MathRound(score * 100, maxPossible) - 1
    ELSE MathRound(score * 100, maxPossible)

scoreProperty_PriceFirst(property, preferences) ==
    LET criteria == << ScorePrice(property, preferences),
                       ScoreLocation(property, preferences),
                       ScoreRoi(property, preferences),
                       ScoreArea(property, preferences),
                       ScoreDistance(property, preferences) >>
        explanation == criteria[1].entries \o criteria[2].entries \o criteria[3].entries
                          \o criteria[4].entries \o criteria[5].entries
        score == SumPoints(explanation)
        maxPossible == criteria[1].max + criteria[2].max + criteria[3].max
                          + criteria[4].max + criteria[5].max
    IN  [ score |-> round2(score, Scale),
          maxPossible |-> maxPossible,
          matchPercentage |-> matchPercentage(explanation, score, maxPossible) * Scale,
          explanation |-> explanation ]

\* the five criteria in order, then lines 317-325
scoreProperty(property, preferences) ==
    LET criteria == << ScoreLocation(property, preferences),
                       ScorePrice(property, preferences),
                       ScoreRoi(property, preferences),
                       ScoreArea(property, preferences),
                       ScoreDistance(property, preferences) >>
        explanation == criteria[1].entries \o criteria[2].entries \o criteria[3].entries
                          \o criteria[4].entries \o criteria[5].entries
        score == SumPoints(explanation)
        maxPossible == criteria[1].max + criteria[2].max + criteria[3].max
                          + criteria[4].max + criteria[5].max
    IN  [ score |-> round2(score, Scale),
          maxPossible |-> maxPossible,
          matchPercentage |-> matchPercentage(explanation, score, maxPossible) * Scale,
          explanation |-> explanation ]

---------------------------------------------------------------------------
(* Catalog query: src/src/controller/recommendation.controller.ts:131-177  *)

\* PostgreSQL's ILIKE, which Op.iLike compiles to: % matches any run of
\* characters, _ any one character, letters compare case-insensitively
RECURSIVE iLike(_, _)
iLike(s, pattern) ==
    IF pattern = <<>> THEN s = <<>>
    ELSE IF Head(pattern) = "%"
         THEN iLike(s, Tail(pattern)) \/ (s # <<>> /\ iLike(Tail(s), pattern))
    ELSE IF Head(pattern) = "_"
         THEN s # <<>> /\ iLike(Tail(s), Tail(pattern))
    ELSE s # <<>> /\ Lower(Head(s)) = Lower(Head(pattern))
                  /\ iLike(Tail(s), Tail(pattern))

\* const where: WhereOptions = {} and the eight conditional assignments
BuildWhere(mustHave) ==
    [ location    |-> IF Truthy(mustHave.location)
                      THEN Some(<<"%">> \o Val(mustHave.location) \o <<"%">>)
                      ELSE None,
      categoryId  |-> IF IsSome(mustHave.categoryId) THEN mustHave.categoryId ELSE None,
      status      |-> IF Truthy(mustHave.status) THEN mustHave.status ELSE None,
      priceGte    |-> IF IsSome(mustHave.minPrice) THEN mustHave.minPrice ELSE None,
      priceLte    |-> IF IsSome(mustHave.maxPrice) THEN mustHave.maxPrice ELSE None,
      roiGte      |-> IF IsSome(mustHave.minRoi) THEN mustHave.minRoi ELSE None,
      areaGte     |-> IF IsSome(mustHave.minArea) THEN mustHave.minArea ELSE None,
      distanceLte |-> IF IsSome(mustHave.maxDistanceFromHighway)
                      THEN mustHave.maxDistanceFromHighway ELSE None ]

\* SQL comparison of a nullable column: NULL compares as not true
SqlGte(column, bound) == IsSome(column) /\ Val(column) >= bound
SqlLte(column, bound) == IsSome(column) /\ Val(column) <= bound

\* one row against the WHERE clause (the conjunction of the set conditions)
RowMatches(row, where) ==
    /\ IsSome(where.location)    => iLike(row.location, Val(where.location))
    /\ IsSome(where.categoryId)  => row.categoryId = Val(where.categoryId)
    /\ IsSome(where.status)      => iLike(row.status, Val(where.status))
    /\ IsSome(where.priceGte)    => SqlGte(row.priceNpr, Val(where.priceGte))
    /\ IsSome(where.priceLte)    => SqlLte(row.priceNpr, Val(where.priceLte))
    /\ IsSome(where.roiGte)      => SqlGte(row.roiPercent, Val(where.roiGte))
    /\ IsSome(where.areaGte)     => SqlGte(row.areaSqft, Val(where.areaGte))
    /\ IsSome(where.distanceLte) => SqlLte(row.distanceFromHighway, Val(where.distanceLte))

\* Property.findAll({ where }): the table's rows that match, in table order
findAll(table, where) == SelectSeq(table, LAMBDA row : RowMatches(row, where))

---------------------------------------------------------------------------
(* Request parsing: src/src/controller/recommendation.controller.ts:21-97  *)

\* a string, or the first element of an array when it is a string
extractQueryString(value) ==
    IF IsString(value) THEN value
    ELSE IF IsArray(value)
    THEN IF value.xs # <<>> /\ IsString(value.xs[1]) THEN value.xs[1] ELSE Undefined
    ELSE Undefined

\* raw.replace(/,/g, "")
RemoveCommas(s) == SelectSeq(s, LAMBDA c : c # ",")

\* parseFloat's answer as the optional number parseNumber returns
FiniteOrUndefined(parsed) == IF IsNaN(parsed) THEN None ELSE Some(parsed.n)

\* lines 33-37: the string branch of parseNumber
ParseRaw(raw) ==
    IF ~IsTruthy(raw) THEN None
    ELSE FiniteOrUndefined(parseFloat(trim(RemoveCommas(raw.s))))

FiniteOrZero(parsed) == IF IsNaN(parsed) THEN Some(0) ELSE Some(parsed.n)

ParseRaw_NaNAsZero(raw) ==
    IF ~IsTruthy(raw) THEN Some(0)
    ELSE FiniteOrZero(parseFloat(trim(RemoveCommas(raw.s))))

parseNumber_NaNAsZero(value) ==
    IF value = Undefined THEN None
    ELSE IF IsNumber(value) THEN Some(value.n)
    ELSE IF IsNaN(value) THEN Some(0)
    ELSE ParseRaw_NaNAsZero(extractQueryString(value))

\* a number, or absent when the value is no number and does not parse as one
parseNumber(value) ==
    IF IsNumber(value) THEN Some(value.n)
    ELSE IF IsNaN(value) THEN None
    ELSE ParseRaw(extractQueryString(value))

MustHaveFields ==
    { "location", "categoryId", "minPrice", "maxPrice", "minRoi", "minArea",
      "maxDistanceFromHighway", "status" }
PreferenceFields ==
    { "location", "latitude", "longitude", "locationRadiusKm", "budget",
      "roiPercent", "areaSqft", "maxDistanceFromHighway" }
QueryFields ==
    { "location", "categoryId", "minPrice", "maxPrice", "minRoi", "minArea",
      "maxDistanceFromHighway", "status", "preferredLocation", "preferredLatitude",
      "preferredLongitude", "locationRadiusKm", "budget", "preferredRoi",
      "preferredArea", "preferredMaxDistance", "page", "limit" }

\* the request body shape read off the query string of a GET
buildFromQuery(query) ==
    [ mustHave |->
        [ location |-> extractQueryString(query.location),
          categoryId |-> ToJs(parseNumber(query.categoryId)),
          minPrice |-> ToJs(parseNumber(query.minPrice)),
          maxPrice |-> ToJs(parseNumber(query.maxPrice)),
          minRoi |-> ToJs(parseNumber(query.minRoi)),
          minArea |-> ToJs(parseNumber(query.minArea)),
          maxDistanceFromHighway |-> ToJs(parseNumber(query.maxDistanceFromHighway)),
          status |-> extractQueryString(query.status) ],
      preferences |->
        [ location |-> extractQueryString(query.preferredLocation),
          latitude |-> ToJs(parseNumber(query.preferredLatitude)),
          longitude |-> ToJs(parseNumber(query.preferredLongitude)),
          locationRadiusKm |-> ToJs(parseNumber(query.locationRadiusKm)),
          budget |-> ToJs(parseNumber(query.budget)),
          roiPercent |-> ToJs(parseNumber(query.preferredRoi)),
          areaSqft |-> ToJs(parseNumber(query.preferredArea)),
          maxDistanceFromHighway |-> ToJs(parseNumber(query.preferredMaxDistance)) ],
      page |-> ToJs(parseNumber(query.page)),
      limit |-> ToJs(parseNumber(query.limit)) ]

\* input.location?.trim() || undefined
TrimmedOrUndefined(value) ==
    IF IsString(value) /\ trim(value.s) # <<>> THEN Some(trim(value.s)) ELSE None

\* x?.trim() throws a TypeError when x is neither undefined nor a string
TrimThrows(value) == ~(value = Undefined \/ IsString(value))

NoMustHave == [f \in MustHaveFields |-> None]
NoPreferences == [f \in PreferenceFields |-> None]

sanitizeMustHave(input) ==
    IF input = Undefined THEN NoMustHave
    ELSE [ location |-> TrimmedOrUndefined(input.location),
           categoryId |-> parseNumber(input.categoryId),
           minPrice |-> parseNumber(input.minPrice),
           maxPrice |-> parseNumber(input.maxPrice),
           minRoi |-> parseNumber(input.minRoi),
           minArea |-> parseNumber(input.minArea),
           maxDistanceFromHighway |-> parseNumber(input.maxDistanceFromHighway),
           status |-> TrimmedOrUndefined(input.status) ]

sanitizePreferences(input) ==
    IF input = Undefined THEN NoPreferences
    ELSE [ location |-> TrimmedOrUndefined(input.location),
           latitude |-> parseNumber(input.latitude),
           longitude |-> parseNumber(input.longitude),
           locationRadiusKm |-> parseNumber(input.locationRadiusKm),
           budget |-> parseNumber(input.budget),
           roiPercent |-> parseNumber(input.roiPercent),
           areaSqft |-> parseNumber(input.areaSqft),
           maxDistanceFromHighway |-> parseNumber(input.maxDistanceFromHighway) ]

\* whether either sanitizer throws on this source
SanitizeThrows(source) ==
    \/ source.mustHave # Undefined
         /\ (TrimThrows(source.mustHave.location) \/ TrimThrows(source.mustHave.status))
    \/ source.preferences # Undefined /\ TrimThrows(source.preferences.location)

---------------------------------------------------------------------------
(* Geocoder: src/src/utils/geocoding.ts:32-81                              *)

\* what the HTTPS request to the geocoding service can come back with
GeocodeReplies ==
    { [kind |-> "error"],                                   \* .on("error")
      [kind |-> "end", body |-> "unparsable"],              \* JSON.parse throws
      [kind |-> "end", body |-> "status-not-OK"],
      [kind |-> "end", body |-> "OK-without-point"],
      [kind |-> "end", body |-> "OK", point |-> PlaceA],
      [kind |-> "end", body |-> "OK", point |-> PlaceB] }

\* an unpaired UTF-16 surrogate, as JSON.parse yields for "\ud800"
LoneSurrogate == "uD800"

\* line 41: encodeURIComponent throws a URIError on an unpaired surrogate, and
\* the promise geocodeLocation returns is rejected with it
geocodeLocationRejects(location, apiKey) ==
    /\ apiKey
    /\ trim(location) # <<>>
    /\ \E i \in 1..Len(location) : location[i] = LoneSurrogate

\* the value the promise resolves to: coordinates or null
geocodeLocation(location, apiKey, reply) ==
    IF ~apiKey \/ trim(location) = <<>> THEN None
    ELSE IF reply.kind = "error" THEN None
    ELSE IF reply.body = "OK"
         THEN Some([latitude |-> reply.point[1], longitude |-> reply.point[2]])
    ELSE None

---------------------------------------------------------------------------
(* Ranking and pagination:                                                 *)
(* src/src/controller/recommendation.controller.ts:118-119, 181-208        *)

\* the geocoder asked for every preferred text
NeedsGeocoding_IgnoresCoordinates(preferences) == Truthy(preferences.location)

\* lines 106-110: the geocoder is needed
NeedsGeocoding(preferences) ==
    /\ Truthy(preferences.location)
    /\ (~IsSome(preferences.latitude) \/ ~IsSome(preferences.longitude))

\* lines 112-115: if (coordinates) { preferences.latitude = ...; .longitude = ... }
WriteCoordinates(preferences, coordinates) ==
    IF IsSome(coordinates)
    THEN [preferences EXCEPT !.latitude = Some(Val(coordinates).latitude),
                             !.longitude = Some(Val(coordinates).longitude)]
    ELSE preferences

\* x || fallback
OrElse(x, fallback) == IF IsTruthy(x) THEN x ELSE fallback

DefaultPage == 1
DefaultLimit == 20
MinLimit == 1
MaxLimit == 50

\* line 118
EffectivePage(sourcePage) ==
    MathMax(Num(1 * Scale), MathTrunc(OrElse(sourcePage, Num(DefaultPage * Scale))))

\* line 119
EffectiveLimit(sourceLimit) ==
    MathMin(Num(MaxLimit * Scale),
            MathMax(Num(MinLimit * Scale),
                    MathTrunc(OrElse(sourceLimit, Num(DefaultLimit * Scale)))))

\* lines 121-125
InvalidPriceBounds(mustHave) ==
    /\ IsSome(mustHave.minPrice)
    /\ IsSome(mustHave.maxPrice)
    /\ Val(mustHave.minPrice) > Val(mustHave.maxPrice)

\* lines 182-190: one ranked entry
RankedEntry(property, scored) ==
    [ property |-> property,
      matchPercentage |-> scored.matchPercentage,
      score |-> scored.score,
      explanation |-> scored.explanation ]

Scored(property, preferences) ==
    RankedEntry(property, scoreProperty(property, preferences))

Compare_Ascending(a, b) ==
    IF a.score - b.score # 0 THEN a.score - b.score
    ELSE a.matchPercentage - b.matchPercentage

\* line 191: b.score - a.score || b.matchPercentage - a.matchPercentage
Compare(a, b) ==
    IF b.score - a.score # 0 THEN b.score - a.score
    ELSE b.matchPercentage - a.matchPercentage

\* x placed behind every element that does not have to come after it
RECURSIVE InsertRanked(_, _)
InsertRanked(sorted, x) ==
    IF sorted = <<>> THEN <<x>>
    ELSE IF Compare(sorted[Len(sorted)], x) <= 0 THEN Append(sorted, x)
    ELSE Append(InsertRanked(SubSeq(sorted, 1, Len(sorted) - 1), x), sorted[Len(sorted)])

\* Array.prototype.sort with the comparator: a stable sort
RECURSIVE SortRanked(_)
SortRanked(entries) ==
    IF entries = <<>> THEN <<>>
    ELSE InsertRanked(SortRanked(SubSeq(entries, 1, Len(entries) - 1)),
                      entries[Len(entries)])

\* lines 181-191
Rank(hardFiltered, preferences) ==
    SortRanked([i \in 1..Len(hardFiltered) |-> Scored(hardFiltered[i], preferences)])

\* Math.ceil(a / b) for numbers a >= 0 and b > 0; NaN when either is NaN
CeilDiv(a, b) ==
    IF IsNaN(a) \/ IsNaN(b) THEN NaN
    ELSE Num(((a.n + b.n - 1) \div b.n) * Scale)

\* Array.prototype.slice(start, end) with 0 <= start: NaN bounds count as 0
Slice(seq, start, end) ==
    LET from == IF IsNaN(start) THEN 0 ELSE start.n \div Scale
        to == IF IsNaN(end) THEN 0 ELSE Min(end.n \div Scale, Len(seq))
    IN  SubSeq(seq, from + 1, to)

\* lines 193-208: the body of the 200 response
Paginate(ranked, page, limit) ==
    LET total == Num(Len(ranked) * Scale)
        totalPages == MathMax(Num(1 * Scale), CeilDiv(total, limit))
        offset == IF IsNaN(page) \/ IsNaN(limit) THEN NaN
                  ELSE Num(((page.n - 1 * Scale) * limit.n) \div Scale)
        end == IF IsNaN(offset) \/ IsNaN(limit) THEN NaN ELSE Num(offset.n + limit.n)
    IN  [ status |-> 200,
          data |-> Slice(ranked, offset, end),
          pagination |->
            [ page |-> page, limit |-> limit, total |-> total,
              totalPages |-> totalPages,
              hasNext |-> ~IsNaN(page) /\ ~IsNaN(totalPages) /\ page.n < totalPages.n,
              hasPrev |-> ~IsNaN(page) /\ page.n > 1 * Scale ] ]

BadRequest ==
    [ status |-> 400,
      message |-> "Invalid constraints: minPrice cannot be greater than maxPrice" ]

ServerError == [ status |-> 500, message |-> "Failed to build recommendations" ]

---------------------------------------------------------------------------
(* Inputs of the hard-filter stage                                         *)

MaxProps == 2      \* longest listing sequence drawn from the pool
MaxActive == 2     \* most constraints simultaneously present in a must-have

NoCoordinate == None

Listing(loc, cat, st, price, roi, area, dist) ==
    [ id |-> 0, location |-> loc, categoryId |-> cat, status |-> st,
      latitude |-> NoCoordinate, longitude |-> NoCoordinate,
      priceNpr |-> price, roiPercent |-> roi, areaSqft |-> area,
      distanceFromHighway |-> dist ]

FilterLocations == { <<"A", "b">>, <<"b", "_">> }
FilterStatuses == { <<"A", "b">>, <<"b">> }
FilterCategories == { 1 * Scale, 2 * Scale }
ColumnValues == { None, Some(0), Some(3 * Scale) }

\* the listings tried one at a time: every combination of the numeric columns,
\* and every combination of the text columns and the category
FilterListings ==
    { Listing(<<"A", "b">>, 1 * Scale, <<"A", "b">>, price, roi, area, dist) :
        price \in ColumnValues, roi \in ColumnValues,
        area \in ColumnValues, dist \in ColumnValues }
    \cup
    { Listing(loc, cat, st, v, v, v, v) :
        loc \in FilterLocations, cat \in FilterCategories, st \in FilterStatuses,
        v \in ColumnValues }

\* the rows that longer sequences are built from
PoolListings ==
    { Listing(<<"A", "b">>, 1 * Scale, <<"A", "b">>, Some(3 * Scale), Some(3 * Scale),
              Some(3 * Scale), Some(0)),
      Listing(<<"b", "_">>, 1 * Scale, <<"b">>, Some(0), None, Some(3 * Scale), Some(0)),
      Listing(<<"A", "b">>, 2 * Scale, <<"b">>, None, Some(0), Some(0), Some(3 * Scale)),
      Listing(<<"b", "_">>, 2 * Scale, <<"A", "b">>, Some(3 * Scale), Some(3 * Scale),
              None, None) }

\* rows get their primary key from their position in the table
WithIds(rows) == [i \in 1..Len(rows) |-> [rows[i] EXCEPT !.id = i]]

RECURSIVE SeqsOfLen(_, _)
SeqsOfLen(S, n) ==
    IF n = 0 THEN { <<>> }
    ELSE { <<x>> \o s : x \in S, s \in SeqsOfLen(S, n - 1) }

SeqsUpTo(S, n) == UNION { SeqsOfLen(S, k) : k \in 0..n }

FilterInputs ==
    { WithIds(<<l>>) : l \in FilterListings }
    \cup { WithIds(s) : s \in SeqsUpTo(PoolListings, MaxProps) }

BoundValues == { None, Some(0), Some(2 * Scale) }

NumActive(m) ==
    Cardinality({ f \in DOMAIN m : IsSome(m[f]) })

\* sanitized must-have sets: strings trimmed and non-empty, numbers or absent,
\* minPrice <= maxPrice when both are present (the handler rejects the rest)
MustHaves ==
    { m \in [ location   : { None, Some(<<"a">>), Some(<<"_">>) },
              categoryId : { None, Some(1 * Scale) },
              status     : { None, Some(<<"a", "b">>), Some(<<"B">>), Some(<<"_", "b">>) },
              minPrice   : BoundValues,
              maxPrice   : BoundValues,
              minRoi     : BoundValues,
              minArea    : BoundValues,
              maxDistanceFromHighway : BoundValues ] :
        /\ NumActive(m) <= MaxActive
        /\ (IsSome(m.minPrice) /\ IsSome(m.maxPrice))
              => Val(m.minPrice) <= Val(m.maxPrice) }

---------------------------------------------------------------------------
(* The hard-filter stage on its own                                        *)

\* the parts of the state a specification does not use stay as they start
FilterIdle ==
    /\ fProps = <<>> /\ fMustHave = <<>> /\ fPhase = "idle"
    /\ fOut = <<>> /\ fTwice = <<>> /\ fCandidates = <<>>

ScoreIdle ==
    /\ sProperty = <<>> /\ sPreferences = <<>> /\ sPhase = "idle" /\ sResult = <<>>

HandlerIdle ==
    /\ catalog = <<>> /\ envApiKey = FALSE /\ req = <<>> /\ pc = <<>>
    /\ hMustHave = <<>> /\ hPreferences = <<>> /\ hGeoAnswer = <<>>
    /\ hPage = <<>> /\ hLimit = <<>> /\ hWhere = <<>> /\ hCandidates = <<>>
    /\ hRanked = <<>> /\ response = <<>>
    /\ geoCalls = <<>> /\ catalogCalls = <<>> /\ filterRuns = <<>> /\ scoreRuns = <<>>

InitFilter ==
    /\ fProps \in FilterInputs
    /\ fMustHave \in MustHaves
    /\ fPhase = "input"
    /\ fOut = <<>>
    /\ fTwice = <<>>
    /\ fCandidates = <<>>
    /\ ScoreIdle
    /\ HandlerIdle

\* hardFiltered = applyHardFilters(candidates, mustHave)
FilterApply ==
    /\ fPhase = "input"
    /\ fOut' = applyHardFilters(fProps, fMustHave)
    /\ fPhase' = "filtered"
    /\ UNCHANGED <<fProps, fMustHave, fTwice, fCandidates, scoreVars, handlerVars>>

\* the stage applied to its own result
FilterAgain ==
    /\ fPhase = "filtered"
    /\ fTwice' = applyHardFilters(fOut, fMustHave)
    /\ fPhase' = "refiltered"
    /\ UNCHANGED <<fProps, fMustHave, fOut, fCandidates, scoreVars, handlerVars>>

\* the catalog query over the same rows and the same must-have set
FilterQuery ==
    /\ fPhase = "refiltered"
    /\ fCandidates' = findAll(fProps, BuildWhere(fMustHave))
    /\ fPhase' = "queried"
    /\ UNCHANGED <<fProps, fMustHave, fOut, fTwice, scoreVars, handlerVars>>

NextFilter == FilterApply \/ FilterAgain \/ FilterQuery

SpecFilter == InitFilter /\ [][NextFilter]_vars

---------------------------------------------------------------------------
(* The scoring stage on its own                                            *)

\* price, ROI, area and highway distance of a listing, chosen against the
\* preferred values 7, 4, 3 and 2: absent, exact, within, partly off, twice
\* the preferred value and beyond, zero and negative
NumericProfiles ==
    { <<None, None, None, None>>,
      <<Some(7 * Scale), Some(5 * Scale), Some(3 * Scale), Some(1 * Scale)>>,
      <<Some(7 * Scale), Some(4 * Scale), Some(3 * Scale), Some(2 * Scale)>>,
      <<Some(6 * Scale), Some(3 * Scale), Some(2 * Scale), Some(3 * Scale)>>,
      <<Some(8 * Scale), None, Some(4 * Scale), Some(3 * Scale)>>,
      <<Some(14 * Scale), Some(0), Some(6 * Scale), Some(4 * Scale)>>,
      <<Some(15 * Scale), Some(-1 * Scale), Some(7 * Scale), Some(5 * Scale)>>,
      <<Some(0), Some(3 * Scale), None, Some(1 * Scale)>>,
      <<None, Some(5 * Scale), Some(2 * Scale), None>> }

\* coordinates of a listing: none, one alone, or a place
ListingCoordinates ==
    { <<None, None>>, <<Some(PlaceA[1]), None>>,
      <<Some(PlaceA[1]), Some(PlaceA[2])>>,
      <<Some(PlaceB[1]), Some(PlaceB[2])>>,
      <<Some(PlaceC[1]), Some(PlaceC[2])>> }

ScoreListings ==
    { [ Listing(loc, 1 * Scale, <<"A", "b">>, n[1], n[2], n[3], n[4])
          EXCEPT !.id = 1, !.latitude = c[1], !.longitude = c[2] ] :
        loc \in FilterLocations, c \in ListingCoordinates, n \in NumericProfiles }

\* sanitized preference sets: text trimmed and non-empty, numbers or absent
PreferenceSets ==
    { [ location |-> loc, latitude |-> c[1], longitude |-> c[2],
        locationRadiusKm |-> radius, budget |-> budget, roiPercent |-> roi,
        areaSqft |-> area, maxDistanceFromHighway |-> dist ] :
        loc \in { None, Some(<<"a">>) },
        c \in { <<None, None>>, <<Some(PlaceA[1]), None>>,
                <<Some(PlaceA[1]), Some(PlaceA[2])>> },
        radius \in { None, Some(0), Some(20 * Scale) },
        budget \in { None, Some(0), Some(-7 * Scale), Some(7 * Scale) },
        roi \in { None, Some(0), Some(-4 * Scale), Some(4 * Scale) },
        area \in { None, Some(0), Some(3 * Scale) },
        dist \in { None, Some(0), Some(2 * Scale) } }

Kathmandu == << "K", "a", "t", "h", "m", "a", "n", "d", "u" >>

\* two listings that earn 0.45 points against a preferred ROI of 10 percent
\* and a preferred area of 100: ROI 0.1 with area 2, and ROI 0 with area 3
TiedRows ==
    << Listing(<<"A", "b">>, 1 * Scale, <<"A", "b">>, None, Some(Scale \div 10),
               Some(2 * Scale), None),
       Listing(<<"A", "b">>, 1 * Scale, <<"A", "b">>, None, Some(0), Some(3 * Scale), None) >>

TiedPreferences ==
    [ NoPreferences EXCEPT !.roiPercent = Some(10 * Scale),
                           !.areaSqft = Some(100 * Scale) ]

\* single calls beside the product above, as <<listing, preferences>>; prices
\* are in millions of NPR, areas in hundreds of sq ft, highway distances in
\* hundreds of metres (every criterion depends on the ratio only)
ScoreScenarios ==
    { \* a listing that meets every preference, ROI not asked for
      << [ Listing(Kathmandu, 1 * Scale, <<"A", "b">>, Some(5 * Scale), None,
                   Some(12 * Scale), Some(5 * Scale)) EXCEPT !.id = 1 ],
         [ NoPreferences EXCEPT !.location = Some(Kathmandu),
                                !.budget = Some(5 * Scale),
                                !.areaSqft = Some(12 * Scale),
                                !.maxDistanceFromHighway = Some(10 * Scale) ] >>,
      \* two criteria whose exact points both end below half a hundredth
      << [ Listing(<<"A", "b">>, 1 * Scale, <<"A", "b">>, Some(6 * Scale), None,
                   Some(5 * Scale), None) EXCEPT !.id = 1 ],
         [ NoPreferences EXCEPT !.budget = Some(7 * Scale),
                                !.areaSqft = Some(7 * Scale) ] >>,
      \* a score of exactly 37.5 percent of maxPossible
      << [ Listing(<<"A", "b">>, 1 * Scale, <<"A", "b">>, Some(3 * Scale), None,
                   None, None) EXCEPT !.id = 1 ],
         [ NoPreferences EXCEPT !.budget = Some(8 * Scale) ] >>,
      \* 0.45 points out of 30, which is 1.5 percent, awarded as 0.15 + 0.3
      << [ TiedRows[1] EXCEPT !.id = 1 ], TiedPreferences >>,
      \* and awarded as 0 + 0.45
      << [ TiedRows[2] EXCEPT !.id = 1 ], TiedPreferences >> }

InitScore ==
    /\ \/ sProperty \in ScoreListings /\ sPreferences \in PreferenceSets
       \/ \E scenario \in ScoreScenarios :
             sProperty = scenario[1] /\ sPreferences = scenario[2]
    /\ sPhase = "input"
    /\ sResult = <<>>
    /\ FilterIdle
    /\ HandlerIdle

\* const scored = scoreProperty(property, preferences)
ScoreApply ==
    /\ sPhase = "input"
    /\ sResult' = scoreProperty(sProperty, sPreferences)
    /\ sPhase' = "scored"
    /\ UNCHANGED <<sProperty, sPreferences, filterVars, handlerVars>>

NextScore == ScoreApply

SpecScore == InitScore /\ [][NextScore]_vars

---------------------------------------------------------------------------
(* The request handler:                                                    *)
(* src/src/controller/recommendation.controller.ts:99-216                  *)

MaxCatalog == 3    \* rows in the properties table

RequestIds == { "r1", "r2" }

\* the table: rows 1 and 3 score alike under every preference set, row 2
\* differs, row 4 has no numeric columns
CatalogRows ==
    << [ Listing(<<"A", "b">>, 1 * Scale, <<"A", "b">>, Some(6 * Scale), Some(3 * Scale),
                 Some(2 * Scale), Some(3 * Scale))
           EXCEPT !.latitude = Some(PlaceB[1]), !.longitude = Some(PlaceB[2]) ],
       Listing(<<"b">>, 1 * Scale, <<"A", "b">>, Some(7 * Scale), Some(5 * Scale),
               Some(3 * Scale), Some(1 * Scale)),
       [ Listing(<<"A", "b">>, 2 * Scale, <<"b">>, Some(6 * Scale), Some(3 * Scale),
                 Some(2 * Scale), Some(3 * Scale))
           EXCEPT !.latitude = Some(PlaceB[1]), !.longitude = Some(PlaceB[2]) ],
       [ Listing(<<"b", "_">>, 2 * Scale, <<"b">>, None, None, None, None)
           EXCEPT !.latitude = Some(PlaceC[1]), !.longitude = Some(PlaceC[2]) ] >>

RawMustHave == [f \in MustHaveFields |-> Undefined]
RawPreferences == [f \in PreferenceFields |-> Undefined]
EmptyQuery == [f \in QueryFields |-> Undefined]

\* mustHave objects of a POST body
BodyMustHaves ==
    { Undefined,
      [RawMustHave EXCEPT !.minPrice = Num(3 * Scale), !.maxPrice = Num(2 * Scale)],
      [RawMustHave EXCEPT !.minPrice = Str(<<"6">>), !.maxPrice = Num(7 * Scale)],
      [RawMustHave EXCEPT !.location = Str(<<" ", "a", " ">>)],
      [RawMustHave EXCEPT !.status = Str(<<"_", "b">>), !.minRoi = Str(<<"x">>)] }

\* preferences objects of a POST body
BodyPreferences ==
    { Undefined,
      [RawPreferences EXCEPT !.location = Str(<<"a">>)],
      [RawPreferences EXCEPT !.location = Str(<<"a">>),
                             !.latitude = Num(PlaceA[1]), !.longitude = Num(PlaceA[2])],
      [RawPreferences EXCEPT !.location = Str(<<"a">>), !.latitude = Num(PlaceC[1]),
                             !.budget = Num(7 * Scale)],
      [RawPreferences EXCEPT !.location = Str(<<LoneSurrogate>>)],
      [RawPreferences EXCEPT !.location = Num(5 * Scale)],
      [RawPreferences EXCEPT !.budget = Num(7 * Scale), !.roiPercent = Num(4 * Scale),
                             !.areaSqft = Str(<<"3">>),
                             !.maxDistanceFromHighway = Num(2 * Scale)] }

\* page and limit of a POST body: absent, zero, negative, fractional, above the
\* maximum, numeric strings, non-numeric strings
BodyPaging ==
    { <<Num(0), Num(0)>>,
      <<Num(-1 * Scale), Num(-5 * Scale)>>,
      <<Num(150), Num(250)>>,
      <<Num(2 * Scale), Num(60 * Scale)>>,
      <<Num(2 * Scale), Num(1 * Scale)>>,
      <<Str(<<"2">>), Str(<<"1">>)>>,
      <<Str(<<"a", "b">>), Undefined>>,
      <<Undefined, Str(<<"x">>)>> }

Post(mh, pf, pg, lim) ==
    [ method |-> "POST", query |-> EmptyQuery,
      body |-> [mustHave |-> mh, preferences |-> pf, page |-> pg, limit |-> lim] ]

Get(query) == [ method |-> "GET", query |-> query, body |-> Undefined ]

\* numeric fields that do not parse, and one with thousands separators
MalformedMustHave ==
    [RawMustHave EXCEPT !.categoryId = JsTrue,
                        !.minPrice = Str(<<>>),
                        !.maxPrice = Str(<<"1", ",", "2", "0", "0", ".", "5", "0">>),
                        !.minRoi = Str(<<"a", "b">>),
                        !.minArea = NaN,
                        !.maxDistanceFromHighway = Arr(<<Num(5 * Scale)>>)]

MalformedPreferences ==
    [RawPreferences EXCEPT !.location = Str(<<"a">>),
                           !.latitude = Num(PlaceA[1]),
                           !.longitude = Str(<<"x">>),
                           !.locationRadiusKm = JsTrue,
                           !.budget = Str(<<"a", "b">>),
                           !.roiPercent = Str(<<" ">>),
                           !.areaSqft = NaN,
                           !.maxDistanceFromHighway = Arr(<<Num(5 * Scale)>>)]

ScoringPreferences ==
    [RawPreferences EXCEPT !.budget = Num(7 * Scale), !.roiPercent = Num(4 * Scale),
                           !.areaSqft = Str(<<"3">>),
                           !.maxDistanceFromHighway = Num(2 * Scale)]

Requests ==
    { Post(mh, pf, Undefined, Undefined) : mh \in BodyMustHaves, pf \in BodyPreferences }
    \cup { Post(Undefined, ScoringPreferences, p[1], p[2]) : p \in BodyPaging }
    \cup { Post([RawMustHave EXCEPT !.location = Num(5 * Scale)], Undefined,
                Undefined, Undefined),
           Post(MalformedMustHave, MalformedPreferences, Undefined, Undefined),
           Post(Undefined,
                [RawPreferences EXCEPT !.roiPercent = Num(10 * Scale),
                                       !.areaSqft = Num(100 * Scale)],
                Undefined, Undefined),
           Get([EmptyQuery EXCEPT !.minRoi = Str(<<"x">>),
                                  !.minArea = Str(<<>>),
                                  !.budget = Str(<<"a", "b">>),
                                  !.preferredRoi = Str(<<"4">>)]),
           Get([EmptyQuery EXCEPT !.location = Str(<<"a">>),
                                  !.minPrice = Str(<<"1", ",", "0">>),
                                  !.preferredLocation = Str(<<"b">>),
                                  !.page = Str(<<"2">>), !.limit = Str(<<"1">>)]),
           Get([EmptyQuery EXCEPT !.budget = Str(<<"7">>),
                                  !.page = Str(<<"a", "b">>), !.limit = Str(<<"0">>)]),
           Get([EmptyQuery EXCEPT !.minPrice = Arr(<<Str(<<"9">>), Str(<<"1">>)>>),
                                  !.maxPrice = Str(<<"7", ".", "5">>),
                                  !.preferredLocation = Str(<<"a">>)]) }

PerRequest(v) == [r \in RequestIds |-> v]

Init ==
    /\ catalog \in { WithIds(SubSeq(CatalogRows, 1, Min(MaxCatalog, Len(CatalogRows)))),
                      WithIds(TiedRows) }
    /\ envApiKey \in BOOLEAN
    /\ req \in [RequestIds -> Requests]
    /\ pc = PerRequest("start")
    /\ hMustHave = PerRequest(NoMustHave)
    /\ hPreferences = PerRequest(NoPreferences)
    /\ hGeoAnswer = PerRequest(<<>>)
    /\ hPage = PerRequest(Undefined)
    /\ hLimit = PerRequest(Undefined)
    /\ hWhere = PerRequest(None)
    /\ hCandidates = PerRequest(<<>>)
    /\ hRanked = PerRequest(<<>>)
    /\ response = PerRequest(Undefined)
    /\ geoCalls = PerRequest(0)
    /\ catalogCalls = PerRequest(0)
    /\ filterRuns = PerRequest(0)
    /\ scoreRuns = PerRequest(0)
    /\ FilterIdle
    /\ ScoreIdle

\* line 101
Source(request) ==
    IF request.method = "GET" THEN buildFromQuery(request.query) ELSE request.body

\* what the handler computes from the request alone: the source (line 101),
\* the sanitized inputs (103-104), page and limit (118-119)
Reading(source) ==
    [ source |-> source,
      mustHave |-> sanitizeMustHave(source.mustHave),
      preferences |-> sanitizePreferences(source.preferences),
      page |-> EffectivePage(source.page),
      limit |-> EffectiveLimit(source.limit) ]

\* the readings of the requests of the model, computed once
Readings == [request \in Requests |-> Reading(Source(request))]

\* lines 118-168: page and limit, the price-bounds check, and either the 400
\* response or the call of Property.findAll
Proceed(r, reading, mh, prefs) ==
    /\ hMustHave' = [hMustHave EXCEPT ![r] = mh]
    /\ hPreferences' = [hPreferences EXCEPT ![r] = prefs]
    /\ hPage' = [hPage EXCEPT ![r] = reading.page]
    /\ hLimit' = [hLimit EXCEPT ![r] = reading.limit]
    /\ IF InvalidPriceBounds(mh)
       THEN /\ response' = [response EXCEPT ![r] = BadRequest]
            /\ pc' = [pc EXCEPT ![r] = "done"]
            /\ UNCHANGED <<hWhere, catalogCalls>>
       ELSE /\ hWhere' = [hWhere EXCEPT ![r] = Some(BuildWhere(mh))]
            /\ catalogCalls' = [catalogCalls EXCEPT ![r] = @ + 1]
            /\ pc' = [pc EXCEPT ![r] = "querying"]
            /\ UNCHANGED response

\* lines 106-116: with the sanitized inputs, call the geocoder or go on
Sanitized(r, reading, mh, prefs) ==
    IF NeedsGeocoding(prefs)
    THEN /\ hMustHave' = [hMustHave EXCEPT ![r] = mh]
         /\ hPreferences' = [hPreferences EXCEPT ![r] = prefs]
         /\ geoCalls' = [geoCalls EXCEPT ![r] = @ + 1]
         /\ pc' = [pc EXCEPT ![r] = "geocoding"]
         /\ UNCHANGED <<hPage, hLimit, hWhere, response, catalogCalls>>
    ELSE /\ Proceed(r, reading, mh, prefs)
         /\ UNCHANGED geoCalls

\* lines 103-104: sanitize; a TypeError there is caught at lines 209-215
Entered(r, reading) ==
    IF SanitizeThrows(reading.source)
    THEN /\ response' = [response EXCEPT ![r] = ServerError]
         /\ pc' = [pc EXCEPT ![r] = "done"]
         /\ UNCHANGED <<hMustHave, hPreferences, hPage, hLimit, hWhere,
                        geoCalls, catalogCalls>>
    ELSE Sanitized(r, reading, reading.mustHave, reading.preferences)

\* the handler from its entry to its first await (or its response)
Start(r) ==
    /\ pc[r] = "start"
    /\ \E reading \in { Readings[req[r]] } : Entered(r, reading)
    /\ UNCHANGED <<catalog, envApiKey, req, hGeoAnswer, hCandidates, hRanked,
                   filterRuns, scoreRuns, filterVars, scoreVars>>

\* the preferences object the resumed handler writes the coordinates to
ResumedPreferences_Shared(r) ==
    IF \E o \in RequestIds : o # r /\ pc[o] # "start"
    THEN hPreferences[CHOOSE o \in RequestIds : o # r /\ pc[o] # "start"]
    ELSE hPreferences[r]

ResumedPreferences(r) == hPreferences[r]

\* lines 111-115 and on: the handler resumed with the geocoder's answer
Resumed(r, coordinates) ==
    /\ hGeoAnswer' = [hGeoAnswer EXCEPT ![r] = <<coordinates>>]
    /\ \E reading \in { Readings[req[r]] } :
       \E prefs \in { WriteCoordinates(ResumedPreferences(r), coordinates) } :
           Proceed(r, reading, hMustHave[r], prefs)

\* the geocoder's promise resolves and the handler runs on to its next await
GeocodeReturn(r) ==
    /\ pc[r] = "geocoding"
    /\ ~geocodeLocationRejects(Val(hPreferences[r].location), envApiKey)
    /\ \E reply \in GeocodeReplies :
       \E coordinates \in { geocodeLocation(Val(hPreferences[r].location),
                                             envApiKey, reply) } :
           Resumed(r, coordinates)
    /\ UNCHANGED <<catalog, envApiKey, req, hCandidates, hRanked, geoCalls,
                   filterRuns, scoreRuns, filterVars, scoreVars>>

\* the geocoder's promise is rejected: the catch block responds 500
GeocodeThrow(r) ==
    /\ pc[r] = "geocoding"
    /\ geocodeLocationRejects(Val(hPreferences[r].location), envApiKey)
    /\ response' = [response EXCEPT ![r] = ServerError]
    /\ pc' = [pc EXCEPT ![r] = "done"]
    /\ UNCHANGED <<catalog, envApiKey, req, localVars, callVars, filterVars, scoreVars>>

\* lines 179-208 on the rows findAll resolved with
Respond(r, found, hardFiltered, sorted) ==
    /\ hCandidates' = [hCandidates EXCEPT ![r] = found]
    /\ hRanked' = [hRanked EXCEPT ![r] = sorted]
    /\ filterRuns' = [filterRuns EXCEPT ![r] = @ + 1]
    /\ scoreRuns' = [scoreRuns EXCEPT ![r] = @ + Len(hardFiltered)]
    /\ response' = [response EXCEPT ![r] = Paginate(sorted, hPage[r], hLimit[r])]

Filtered(r, found, hardFiltered) ==
    \E sorted \in { Rank(hardFiltered, hPreferences[r]) } :
        Respond(r, found, hardFiltered, sorted)

Found(r, found) ==
    \E hardFiltered \in { applyHardFilters(found, hMustHave[r]) } :
        Filtered(r, found, hardFiltered)

\* findAll resolves: filter, score, sort, paginate, respond (lines 179-208)
CatalogReturn(r) ==
    /\ pc[r] = "querying"
    /\ \E found \in { findAll(catalog, Val(hWhere[r])) } : Found(r, found)
    /\ pc' = [pc EXCEPT ![r] = "done"]
    /\ UNCHANGED <<catalog, envApiKey, req, hMustHave, hPreferences, hGeoAnswer,
                   hPage, hLimit, hWhere, geoCalls, catalogCalls,
                   filterVars, scoreVars>>

\* a rejection of findAll that no catch block sees
CatalogThrow_Uncaught(r) ==
    /\ pc[r] = "querying"
    /\ pc' = [pc EXCEPT ![r] = "done"]
    /\ UNCHANGED <<catalog, envApiKey, req, localVars, response, callVars,
                   filterVars, scoreVars>>

\* findAll rejects: the catch block responds 500 (lines 209-215)
CatalogThrow(r) ==
    /\ pc[r] = "querying"
    /\ response' = [response EXCEPT ![r] = ServerError]
    /\ pc' = [pc EXCEPT ![r] = "done"]
    /\ UNCHANGED <<catalog, envApiKey, req, localVars, callVars, filterVars, scoreVars>>

Next ==
    \E r \in RequestIds :
        \/ Start(r)
        \/ GeocodeReturn(r)
        \/ GeocodeThrow(r)
        \/ CatalogReturn(r)
        \/ CatalogThrow(r)

Spec == Init /\ [][Next]_vars

\* Express runs the handler for every request that arrived, and the event loop
\* resumes it when the promise it awaits settles; each collaborator call is
\* taken to complete (the geocoder resolves unless it rejects at once, the
\* catalog resolves or rejects)
Fairness ==
    \A r \in RequestIds :
        /\ WF_vars(Start(r))
        /\ WF_vars(GeocodeThrow(r) \/ GeocodeReturn(r))
        /\ WF_vars(CatalogThrow(r) \/ CatalogReturn(r))

FairSpec == Spec /\ Fairness

---------------------------------------------------------------------------
(* Properties of the hard-filter stage (SpecFilter)                        *)

\* the constraints of a must-have set, each as the specification words it
SatLocation(L, M) ==
    IsSome(M.location) =>
        \E i \in 0..(Len(L.location) - Len(Val(M.location))) :
            \A k \in 1..Len(Val(M.location)) :
                Lower(L.location[i + k]) = Lower(Val(M.location)[k])
SatCategory(L, M) == IsSome(M.categoryId) => L.categoryId = Val(M.categoryId)
SatStatus(L, M) ==
    IsSome(M.status) =>
        /\ Len(L.status) = Len(Val(M.status))
        /\ \A k \in 1..Len(L.status) : Lower(L.status[k]) = Lower(Val(M.status)[k])
SatMinPrice(L, M) ==
    IsSome(M.minPrice) => L.priceNpr # None /\ Val(L.priceNpr) >= Val(M.minPrice)
SatMaxPrice(L, M) ==
    IsSome(M.maxPrice) => L.priceNpr # None /\ Val(L.priceNpr) <= Val(M.maxPrice)
SatMinRoi(L, M) ==
    IsSome(M.minRoi) => L.roiPercent # None /\ Val(L.roiPercent) >= Val(M.minRoi)
SatMinArea(L, M) ==
    IsSome(M.minArea) => L.areaSqft # None /\ Val(L.areaSqft) >= Val(M.minArea)
SatMaxDistance(L, M) ==
    IsSome(M.maxDistanceFromHighway) =>
        /\ L.distanceFromHighway # None
        /\ Val(L.distanceFromHighway) <= Val(M.maxDistanceFromHighway)

SatisfiesAll(L, M) ==
    /\ SatLocation(L, M) /\ SatCategory(L, M) /\ SatStatus(L, M)
    /\ SatMinPrice(L, M) /\ SatMaxPrice(L, M)
    /\ SatMinRoi(L, M) /\ SatMinArea(L, M) /\ SatMaxDistance(L, M)

\* how many of the eight constraints the listing violates
NumViolated(L, M) ==
    Cardinality({ c \in 1..8 :
        \/ c = 1 /\ ~SatLocation(L, M)
        \/ c = 2 /\ ~SatCategory(L, M)
        \/ c = 3 /\ ~SatStatus(L, M)
        \/ c = 4 /\ ~SatMinPrice(L, M)
        \/ c = 5 /\ ~SatMaxPrice(L, M)
        \/ c = 6 /\ ~SatMinRoi(L, M)
        \/ c = 7 /\ ~SatMinArea(L, M)
        \/ c = 8 /\ ~SatMaxDistance(L, M) })

\* C1: for a single listing L, applyHardFilters([L], M) returns [L] exactly when
\* L satisfies every constraint present in M (location substring and status
\* equality ignoring case, category equality, price/ROI/area/distance present
\* and within the bound), and returns the empty sequence otherwise.
C1_FilterIffAllConstraints ==
    (fPhase # "input" /\ Len(fProps) = 1) =>
        /\ fOut \in { <<>>, fProps }
        /\ (fOut = fProps) <=> SatisfiesAll(fProps[1], fMustHave)

\* a listing whose status contains the required status without being equal to
\* it, violating that constraint alone, has been excluded
C1_Witness ==
    /\ fPhase = "filtered"
    /\ Len(fProps) = 1
    /\ fMustHave.status = Some(<<"B">>)
    /\ fProps[1].status = <<"A", "b">>
    /\ IsSome(fMustHave.minPrice)
    /\ NumViolated(fProps[1], fMustHave) = 1
    /\ fOut = <<>>

\* C5 (as claimed): the catalog query and the in-memory predicate select the
\* same listings of the same table for the same must-have set.
C5_QueryEqualsHardFilter ==
    fPhase = "queried" => fCandidates = fOut

IsStrictlyIncreasing(ids) ==
    \A i \in 1..(Len(ids) - 1) : ids[i] < ids[i + 1]

\* C9: the result of applyHardFilters is a subsequence of its input in the
\* input's order, each kept listing identical to the input listing, and the
\* step changes neither the input sequence nor the must-have set.
C9_SubsequenceAndFrame ==
    /\ [](fPhase # "input" =>
            /\ IsStrictlyIncreasing([i \in 1..Len(fOut) |-> fOut[i].id])
            /\ \A i \in 1..Len(fOut) :
                  /\ fOut[i].id \in 1..Len(fProps)
                  /\ fOut[i] = fProps[fOut[i].id])
    /\ [][fProps' = fProps /\ fMustHave' = fMustHave]_vars

\* two listings kept out of a longer input, with one dropped
C9_Witness ==
    /\ fPhase = "filtered"
    /\ Len(fProps) >= 2
    /\ Len(fOut) >= 1
    /\ Len(fOut) < Len(fProps)
    /\ fOut[1].id = 2

\* C10: filtering the filtered sequence again with the same must-have set
\* returns the filtered sequence.
C10_Idempotent ==
    fPhase \in { "refiltered", "queried" } => fTwice = fOut

\* a second pass over a non-empty result that the first pass shortened
C10_Witness ==
    /\ fPhase = "refiltered"
    /\ fOut # <<>>
    /\ Len(fOut) < Len(fProps)
    /\ fTwice = fOut

---------------------------------------------------------------------------
(* Properties of the scoring stage (SpecScore)                             *)

---------------------------------------------------------------------------
(* Properties of the request handler                                       *)

\* sanitizeMustHave returns (it throws no TypeError) on the request's source
MustHaveSanitizes(r) ==
    \/ Source(req[r]).mustHave = Undefined
    \/ /\ ~TrimThrows(Source(req[r]).mustHave.location)
       /\ ~TrimThrows(Source(req[r]).mustHave.status)

SoloMustHave(r) == sanitizeMustHave(Source(req[r]).mustHave)

\* C3: a request whose sanitized mustHave has minPrice > maxPrice is answered
\* with the 400 validation error, and for it the catalog is never queried and
\* neither applyHardFilters nor scoreProperty runs.
C3_InvalidBoundsAnswered400 ==
    \A r \in RequestIds :
        (MustHaveSanitizes(r) /\ InvalidPriceBounds(SoloMustHave(r)))
            => /\ catalogCalls[r] = 0
               /\ filterRuns[r] = 0
               /\ scoreRuns[r] = 0
               /\ pc[r] = "done" => response[r] = BadRequest

TextModeReasons ==
    { "Location text matched preference", "Location text did not match preference" }

\* C4: a request that called the geocoder is never stopped by it (it goes on
\* to the catalog query unless its price bounds are invalid), and when the
\* lookup gave no coordinates the preferences keep no coordinate pair and
\* every ranked listing is scored in text-only location mode with the location
\* weight counted.
C4_GeocoderBestEffort ==
    \A r \in RequestIds :
        /\ (geoCalls[r] = 1 /\ pc[r] = "done" /\ ~InvalidPriceBounds(hMustHave[r]))
              => catalogCalls[r] = 1
        /\ hGeoAnswer[r] = <<None>>
              => /\ ~(IsSome(hPreferences[r].latitude) /\ IsSome(hPreferences[r].longitude))
                 /\ \A i \in 1..Len(hRanked[r]) :
                       /\ hRanked[r][i].explanation[1].reason \in TextModeReasons
                       /\ ScoreLocation(hRanked[r][i].property, hPreferences[r]).max
                             = WEIGHTS.location

\* the position of the row with this id in the sequence the catalog returned
PositionOf(rows, id) == CHOOSE i \in 1..Len(rows) : rows[i].id = id

\* entry a has to come before entry b
Precedes(r, a, b) ==
    \/ a.score > b.score
    \/ a.score = b.score /\ a.matchPercentage > b.matchPercentage
    \/ /\ a.score = b.score
       /\ a.matchPercentage = b.matchPercentage
       /\ PositionOf(hCandidates[r], a.property.id) < PositionOf(hCandidates[r], b.property.id)

Is200(r) == response[r] # Undefined /\ response[r].status = 200

\* C6: the data of a 200 response is ordered by score descending, then by
\* matchPercentage descending, and entries equal in both keep the order in
\* which the catalog returned them.
C6_SortedStable ==
    \A r \in RequestIds :
        Is200(r) =>
            /\ \A i, j \in 1..Len(hRanked[r]) :
                  i < j => Precedes(r, hRanked[r][i], hRanked[r][j])
            /\ \A i, j \in 1..Len(response[r].data) :
                  i < j => Precedes(r, response[r].data[i], response[r].data[j])

\* a 200 response whose data holds two entries equal in score and percentage
\* behind or before one that differs
C6_Witness ==
    \E r \in RequestIds :
        /\ Is200(r)
        /\ \E i, j, k \in 1..Len(response[r].data) :
              /\ i < j
              /\ response[r].data[i].score = response[r].data[j].score
              /\ response[r].data[i].matchPercentage = response[r].data[j].matchPercentage
              /\ response[r].data[k].score # response[r].data[i].score

IsInteger(x) == IsNumber(x) /\ x.n % Scale = 0

\* C7: the effective page is an integer >= 1 and the effective limit an integer
\* in 1..50 for every supplied value, and the 200 response reports them.
C7_PageAndLimitClamped ==
    \A r \in RequestIds :
        /\ hPage[r] # Undefined
              => /\ IsInteger(hPage[r]) /\ hPage[r].n >= 1 * Scale
                 /\ IsInteger(hLimit[r])
                 /\ hLimit[r].n >= MinLimit * Scale /\ hLimit[r].n <= MaxLimit * Scale
        /\ Is200(r)
              => /\ response[r].pagination.page = hPage[r]
                 /\ response[r].pagination.limit = hLimit[r]

\* the preferences of the request run alone, given the geocoder's answer to it
SoloPreferences(r) ==
    IF hGeoAnswer[r] = <<>>
    THEN sanitizePreferences(Source(req[r]).preferences)
    ELSE WriteCoordinates(sanitizePreferences(Source(req[r]).preferences),
                          hGeoAnswer[r][1])

\* the 200 response of the request run alone against the same catalog
SoloResponse(r) ==
    Paginate(Rank(applyHardFilters(findAll(catalog, BuildWhere(SoloMustHave(r))),
                                   SoloMustHave(r)),
                  SoloPreferences(r)),
             EffectivePage(Source(req[r]).page), EffectiveLimit(Source(req[r]).limit))

\* C8: whatever the interleaving, each request's mustHave, preferences, page,
\* limit and response are those it produces when run alone with the same
\* catalog and the same geocoder answer.
C8_RequestsIsolated ==
    \A r \in RequestIds :
        /\ (pc[r] # "start" /\ ~SanitizeThrows(Source(req[r])))
              => /\ hMustHave[r] = SoloMustHave(r)
                 /\ hPreferences[r] = SoloPreferences(r)
        /\ hPage[r] # Undefined
              => /\ hPage[r] = EffectivePage(Source(req[r]).page)
                 /\ hLimit[r] = EffectiveLimit(Source(req[r]).limit)
        /\ Is200(r) => response[r] = SoloResponse(r)
        /\ (response[r] = BadRequest) => InvalidPriceBounds(SoloMustHave(r))

\* one request resumed with its own coordinates and waiting for the catalog
\* while the other, with different preferences, is suspended at the geocoder
C8_Witness ==
    \E r, o \in RequestIds :
        /\ r # o
        /\ pc[r] = "querying"
        /\ hGeoAnswer[r] # <<>> /\ IsSome(hGeoAnswer[r][1])
        /\ pc[o] = "geocoding"
        /\ hPreferences[o] # hPreferences[r]


---------------------------------------------------------------------------
(* Properties of the scoring stage: criteria, weights and explanation      *)

CriterionOrder == << "location", "price", "roi", "area", "distance" >>

\* the preference that triggers a numeric criterion, and the listing field it reads
PreferenceOf(criterion, preferences) ==
    CASE criterion = "price" -> preferences.budget
      [] criterion = "roi" -> preferences.roiPercent
      [] criterion = "area" -> preferences.areaSqft
      [] criterion = "distance" -> preferences.maxDistanceFromHighway

FieldOf(criterion, property) ==
    CASE criterion = "price" -> property.priceNpr
      [] criterion = "roi" -> property.roiPercent
      [] criterion = "area" -> property.areaSqft
      [] criterion = "distance" -> property.distanceFromHighway

HasCoordinates(x) == IsSome(x.latitude) /\ IsSome(x.longitude)

IsActive(criterion, preferences) ==
    IF criterion = "location"
    THEN HasCoordinates(preferences) \/ Truthy(preferences.location)
    ELSE /\ IsSome(PreferenceOf(criterion, preferences))
         /\ Val(PreferenceOf(criterion, preferences)) > 0

\* the criteria among the first k of the order that are active
ActiveUpTo(k, preferences) ==
    { j \in 1..k : IsActive(CriterionOrder[j], preferences) }

\* the sum of the weights of the active criteria
ActiveWeight(preferences) ==
    LET Weight(j) == IF j \in ActiveUpTo(5, preferences)
                     THEN WEIGHTS[CriterionOrder[j]] ELSE 0
    IN  Weight(1) + Weight(2) + Weight(3) + Weight(4) + Weight(5)

\* the explanation entry of the k-th criterion of the order, when it is active
EntryOf(k) == sResult.explanation[Cardinality(ActiveUpTo(k, sPreferences))]

MissingReasons ==
    { "Property coordinates missing, could not score geo-distance",
      "Price missing, could not score budget closeness",
      "ROI missing, could not score ROI preference",
      "Area missing, could not score area preference",
      "Distance from highway missing, could not score distance preference" }

\* the listing has no value for the k-th criterion to score
Unscorable(k) ==
    IF k = 1
    THEN /\ HasCoordinates(sPreferences)
         /\ ~HasCoordinates(sProperty)
         /\ ~Truthy(sPreferences.location)
    ELSE ~IsSome(FieldOf(CriterionOrder[k], sProperty))

\* C11: an active criterion whose listing field is absent awards 0 points,
\* still counts its weight in maxPossible and still emits one explanation
\* entry with points 0; so does coordinate-mode location when the listing
\* lacks coordinates and no preference text is given.
C11_AbsentFieldScoresZero ==
    sPhase = "scored" =>
        \A k \in 1..5 :
            (IsActive(CriterionOrder[k], sPreferences) /\ Unscorable(k))
                => /\ Len(sResult.explanation) = Cardinality(ActiveUpTo(5, sPreferences))
                   /\ EntryOf(k).points = 0
                   /\ EntryOf(k).reason \in MissingReasons
                   /\ sResult.maxPossible = ActiveWeight(sPreferences)
                   /\ sResult.maxPossible >= WEIGHTS[CriterionOrder[k]]

\* location cannot be scored, the price is absent under a positive budget,
\* and another criterion still awards points
C11_Witness ==
    /\ sPhase = "scored"
    /\ IsActive("location", sPreferences) /\ Unscorable(1)
    /\ IsActive("price", sPreferences) /\ Unscorable(2)
    /\ sResult.score > 0
    /\ sResult.maxPossible >= WEIGHTS.location + WEIGHTS.price


\* the weight table as the specification states it
StatedWeights ==
    [ location |-> 25 * Scale, price |-> 30 * Scale, roi |-> 15 * Scale,
      area |-> 15 * Scale, distance |-> 15 * Scale ]

StatedMaxPossible(preferences) ==
    LET Weight(j) == IF IsActive(CriterionOrder[j], preferences)
                     THEN StatedWeights[CriterionOrder[j]] ELSE 0
    IN  Weight(1) + Weight(2) + Weight(3) + Weight(4) + Weight(5)

\* a listing with nothing to score and a text no preference matches
BareListing ==
    [ Listing(<<"_">>, 1 * Scale, <<"b">>, None, None, None, None) EXCEPT !.id = 2 ]

\* C12: maxPossible is a function of the preferences alone: the sum of the
\* weights 25, 30, 15, 15, 15 of the active criteria (100 when all are
\* active), the same for any other listing.
C12_MaxPossibleFromPreferences ==
    sPhase = "scored" =>
        /\ sResult.maxPossible = StatedMaxPossible(sPreferences)
        /\ scoreProperty(BareListing, sPreferences).maxPossible = sResult.maxPossible
        /\ (\A k \in 1..5 : IsActive(CriterionOrder[k], sPreferences))
              => sResult.maxPossible = 100 * Scale

\* all five criteria active on a listing that lacks coordinates and ROI
C12_Witness ==
    /\ sPhase = "scored"
    /\ \A k \in 1..5 : IsActive(CriterionOrder[k], sPreferences)
    /\ ~HasCoordinates(sProperty)
    /\ ~IsSome(sProperty.roiPercent)
    /\ sProperty # BareListing
    /\ sResult.maxPossible = 100 * Scale
    /\ sResult.score > 0

\* C13: with no criterion active scoreProperty returns maxPossible 0,
\* matchPercentage 0, score 0 and an empty explanation.
C13_NoActiveCriteria ==
    (sPhase = "scored" /\ \A k \in 1..5 : ~IsActive(CriterionOrder[k], sPreferences))
        => /\ sResult.maxPossible = 0
           /\ sResult.matchPercentage = 0
           /\ sResult.score = 0
           /\ sResult.explanation = <<>>

\* no criterion active although a latitude alone, a negative budget and a
\* zero ROI, area and distance preference are given, on a listing with every field
C13_Witness ==
    /\ sPhase = "scored"
    /\ \A k \in 1..5 : ~IsActive(CriterionOrder[k], sPreferences)
    /\ IsSome(sPreferences.latitude)
    /\ IsSome(sPreferences.budget) /\ Val(sPreferences.budget) < 0
    /\ sPreferences.roiPercent = Some(0)
    /\ sPreferences.areaSqft = Some(0)
    /\ sPreferences.maxDistanceFromHighway = Some(0)
    /\ HasCoordinates(sProperty)
    /\ \A k \in 2..5 : IsSome(FieldOf(CriterionOrder[k], sProperty))
    /\ sResult.maxPossible = 0


\* the reasons each criterion can give
ReasonsOf(criterion) ==
    CASE criterion = "location" ->
           { "Location scored by distance",
             "Property coordinates missing, text location fallback matched",
             "Property coordinates missing, text location fallback did not match",
             "Property coordinates missing, could not score geo-distance",
             "Location text matched preference",
             "Location text did not match preference" }
      [] criterion = "price" ->
           { "Price missing, could not score budget closeness",
             "Budget closeness scored against NPR" }
      [] criterion = "roi" ->
           { "ROI missing, could not score ROI preference",
             "ROI scored against preferred" }
      [] criterion = "area" ->
           { "Area missing, could not score area preference",
             "Area closeness scored against" }
      [] criterion = "distance" ->
           { "Distance from highway missing, could not score distance preference",
             "Distance scored against preferred max" }

RECURSIVE PointsTotal(_)
PointsTotal(entries) ==
    IF entries = <<>> THEN 0
    ELSE entries[Len(entries)].points + PointsTotal(SubSeq(entries, 1, Len(entries) - 1))

\* C14: the explanation holds exactly one entry per active criterion and none
\* for an inactive one, in the order location, price, roi, area, distance, and
\* the points of its entries sum to the returned score.
C14_ExplanationPerCriterion ==
    sPhase = "scored" =>
        /\ Len(sResult.explanation) = Cardinality(ActiveUpTo(5, sPreferences))
        /\ \A k \in 1..5 :
              IsActive(CriterionOrder[k], sPreferences)
                  => EntryOf(k).reason \in ReasonsOf(CriterionOrder[k])
        /\ PointsTotal(sResult.explanation) = sResult.score

\* location and price active with roi inactive between them and distance:
\* three entries, one of them with 0 points, and a positive score
C14_Witness ==
    /\ sPhase = "scored"
    /\ IsActive("location", sPreferences) /\ IsActive("price", sPreferences)
    /\ ~IsActive("roi", sPreferences) /\ ~IsActive("area", sPreferences)
    /\ IsActive("distance", sPreferences)
    /\ Len(sResult.explanation) = 3
    /\ sResult.explanation[3].reason \in ReasonsOf("distance")
    /\ \E i \in 1..3 : sResult.explanation[i].points = 0
    /\ sResult.score > 0


\* the preference text occurs in the listing's location, letter case aside
TextMatches ==
    /\ Truthy(sPreferences.location)
    /\ includes(toLowerCase(sProperty.location), toLowerCase(Val(sPreferences.location)))

\* the radius of coordinate mode: locationRadiusKm if > 0, else 10
StatedRadius ==
    IF IsSome(sPreferences.locationRadiusKm) /\ Val(sPreferences.locationRadiusKm) > 0
    THEN Val(sPreferences.locationRadiusKm)
    ELSE 10 * Scale

DistanceToPreferred ==
    haversineKm(Val(sPreferences.latitude), Val(sPreferences.longitude),
                Val(sProperty.latitude), Val(sProperty.longitude))

\* points is weight * max(0, 1 - delta / base) to the nearest hundredth
IsRoundedRatioScore(points, weight, delta, base) ==
    IF delta >= base THEN points = 0
    ELSE /\ 2 * (points * base - weight * (base - delta)) <= base
         /\ 2 * (weight * (base - delta) - points * base) < base

AllOrNothing(entry) ==
    entry.points = (IF TextMatches THEN StatedWeights.location ELSE 0)

\* C15: location is scored in exactly one of three modes. With both preference
\* coordinates: by distance when the listing has both coordinates (the text is
\* ignored; 25 * max(0, 1 - distance / radius), radius locationRadiusKm if > 0
\* else 10), else by text match if a text is given, else 0 points. Without
\* the pair (one coordinate alone counts as none): by text match if a text is
\* given, else the criterion is skipped.
C15_LocationModes ==
    sPhase = "scored" =>
      /\ Len(sResult.explanation) = Cardinality(ActiveUpTo(5, sPreferences))
      /\
        IF HasCoordinates(sPreferences)
        THEN IF HasCoordinates(sProperty)
             THEN /\ EntryOf(1).reason = "Location scored by distance"
                  /\ IsRoundedRatioScore(EntryOf(1).points, StatedWeights.location,
                                         DistanceToPreferred, StatedRadius)
             ELSE IF Truthy(sPreferences.location)
             THEN /\ EntryOf(1).reason \in
                        { "Property coordinates missing, text location fallback matched",
                          "Property coordinates missing, text location fallback did not match" }
                  /\ AllOrNothing(EntryOf(1))
             ELSE /\ EntryOf(1).reason
                        = "Property coordinates missing, could not score geo-distance"
                  /\ EntryOf(1).points = 0
        ELSE IF Truthy(sPreferences.location)
        THEN /\ EntryOf(1).reason \in TextModeReasons
             /\ AllOrNothing(EntryOf(1))
        ELSE /\ \A i \in 1..Len(sResult.explanation) :
                    sResult.explanation[i].reason \notin ReasonsOf("location")
             /\ sResult.maxPossible = StatedMaxPossible(sPreferences)
             /\ ~IsActive("location", sPreferences)

\* coordinate mode inside the radius although the preference text does not
\* occur in the listing's location: points strictly between 0 and 25
C15_Witness ==
    /\ sPhase = "scored"
    /\ HasCoordinates(sPreferences) /\ HasCoordinates(sProperty)
    /\ Truthy(sPreferences.location) /\ ~TextMatches
    /\ sPreferences.locationRadiusKm = Some(0)
    /\ sResult.explanation[1].points > 0
    /\ sResult.explanation[1].points < StatedWeights.location


\* the prices a second listing is given
ComparedPrices ==
    { 0, 1 * Scale, 6 * Scale, 650, 7 * Scale, 750, 8 * Scale, 13 * Scale,
      14 * Scale, 15 * Scale, 21 * Scale }

\* the price points of the scored listing, and of the same listing at price p
PricePoints == EntryOf(2).points

PricePointsAt(p) ==
    ScorePrice([sProperty EXCEPT !.priceNpr = Some(p)], sPreferences).entries[1].points

PriceGap(p) == Abs(p - Val(sPreferences.budget))

\* C16: for a budget > 0, a price no farther from the budget than another
\* gets at least the other's points, prices equally far above and below get
\* equal points, the points are 30 at the budget and 0 from a gap of the
\* budget on.
C16_PriceMonotone ==
    (sPhase = "scored" /\ IsActive("price", sPreferences) /\ IsSome(sProperty.priceNpr))
        => /\ Len(sResult.explanation) = Cardinality(ActiveUpTo(5, sPreferences))
           /\ \A p \in ComparedPrices :
                 /\ PriceGap(Val(sProperty.priceNpr)) <= PriceGap(p)
                       => PricePoints >= PricePointsAt(p)
                 /\ PriceGap(Val(sProperty.priceNpr)) >= PriceGap(p)
                       => PricePoints <= PricePointsAt(p)
           /\ Val(sProperty.priceNpr) = Val(sPreferences.budget)
                 => PricePoints = 30 * Scale
           /\ PriceGap(Val(sProperty.priceNpr)) >= Val(sPreferences.budget)
                 => PricePoints = 0

\* a price below the budget with points strictly between 0 and 30, compared
\* with the price as far above the budget
C16_Witness ==
    /\ sPhase = "scored"
    /\ IsActive("price", sPreferences) /\ IsSome(sProperty.priceNpr)
    /\ Val(sProperty.priceNpr) < Val(sPreferences.budget)
    /\ PricePoints > 0 /\ PricePoints < 30 * Scale
    /\ \E p \in ComparedPrices :
          /\ p > Val(sPreferences.budget)
          /\ PriceGap(p) = PriceGap(Val(sProperty.priceNpr))
          /\ PricePointsAt(p) = PricePoints


\* the listing meets the numeric preferences that are active
MeetsNumericPreferences ==
    /\ IsActive("price", sPreferences)
          => sProperty.priceNpr = sPreferences.budget
    /\ IsActive("roi", sPreferences)
          => /\ IsSome(sProperty.roiPercent)
             /\ Val(sProperty.roiPercent) >= Val(sPreferences.roiPercent)
    /\ IsActive("area", sPreferences)
          => sProperty.areaSqft = sPreferences.areaSqft
    /\ IsActive("distance", sPreferences)
          => /\ IsSome(sProperty.distanceFromHighway)
             /\ Val(sProperty.distanceFromHighway)
                   <= Val(sPreferences.maxDistanceFromHighway)

AtPreferredPoint ==
    /\ HasCoordinates(sPreferences)
    /\ HasCoordinates(sProperty)
    /\ DistanceToPreferred = 0

FullScore ==
    /\ sResult.score = sResult.maxPossible
    /\ sResult.matchPercentage = 100 * Scale

\* C17 as stated: a listing that meets every active preference (location: the
\* text is contained in the listing's location, or the geo distance is 0) gets
\* score = maxPossible and matchPercentage = 100.
C17_FullMatchAsStated ==
    ( /\ sPhase = "scored"
      /\ MeetsNumericPreferences
      /\ IsActive("location", sPreferences) => (TextMatches \/ AtPreferredPoint) )
        => FullScore

\* the listing and the preferences of the stated scenario
IsStatedScenario ==
    /\ sProperty.location = Kathmandu
    /\ ~HasCoordinates(sProperty)
    /\ sProperty.priceNpr = Some(5 * Scale)
    /\ sProperty.roiPercent = None
    /\ sProperty.areaSqft = Some(12 * Scale)
    /\ sProperty.distanceFromHighway = Some(5 * Scale)
    /\ sPreferences = [ NoPreferences EXCEPT !.location = Some(Kathmandu),
                                             !.budget = Some(5 * Scale),
                                             !.areaSqft = Some(12 * Scale),
                                             !.maxDistanceFromHighway = Some(10 * Scale) ]

\* C17, amended: with at least one criterion active, a listing that meets
\* every active preference, location in the mode that scores it (distance 0 when
\* preference and listing both have coordinates, the text contained otherwise),
\* gets score = maxPossible and matchPercentage = 100; the stated scenario
\* yields points 25, 30, 15, 15, score 85, maxPossible 85, matchPercentage 100.
C17_FullMatch ==
    sPhase = "scored" =>
        /\ ( /\ \E k \in 1..5 : IsActive(CriterionOrder[k], sPreferences)
             /\ MeetsNumericPreferences
             /\ IsActive("location", sPreferences)
                   => IF HasCoordinates(sPreferences) /\ HasCoordinates(sProperty)
                      THEN AtPreferredPoint
                      ELSE TextMatches )
              => FullScore
        /\ IsStatedScenario
              => /\ Len(sResult.explanation) = 4
                 /\ sResult.explanation[1].points = 25 * Scale
                 /\ sResult.explanation[2].points = 30 * Scale
                 /\ sResult.explanation[3].points = 15 * Scale
                 /\ sResult.explanation[3].reason \in ReasonsOf("area")
                 /\ sResult.explanation[4].points = 15 * Scale
                 /\ sResult.score = 85 * Scale
                 /\ sResult.maxPossible = 85 * Scale
                 /\ sResult.matchPercentage = 100 * Scale

\* the stated scenario, scored
C17_Witness ==
    /\ sPhase = "scored"
    /\ IsStatedScenario
    /\ sResult.score = 85 * Scale


---------------------------------------------------------------------------
(* Properties of request parsing                                           *)

\* values that are no number and do not parse as one: NaN, the empty and the
\* blank string, strings without a digit, a boolean, an array of a number
MalformedValues ==
    { NaN, Str(<<>>), Str(<<" ">>), Str(<<"x">>), Str(<<"a", "b">>),
      JsTrue, Arr(<<Num(5 * Scale)>>) }

NumericMustHaveFields ==
    { "categoryId", "minPrice", "maxPrice", "minRoi", "minArea", "maxDistanceFromHighway" }

NumericPreferenceFields ==
    { "latitude", "longitude", "locationRadiusKm", "budget", "roiPercent", "areaSqft",
      "maxDistanceFromHighway" }

\* the query parameter a preference is read from
PreferenceParameter ==
    [ latitude |-> "preferredLatitude", longitude |-> "preferredLongitude",
      locationRadiusKm |-> "locationRadiusKm", budget |-> "budget",
      roiPercent |-> "preferredRoi", areaSqft |-> "preferredArea",
      maxDistanceFromHighway |-> "preferredMaxDistance" ]

\* the value the client supplied for a field
SuppliedMustHave(r, f) ==
    IF req[r].method = "GET" THEN req[r].query[f]
    ELSE IF req[r].body.mustHave = Undefined THEN Undefined
    ELSE req[r].body.mustHave[f]

SuppliedPreference(r, f) ==
    IF req[r].method = "GET" THEN req[r].query[PreferenceParameter[f]]
    ELSE IF req[r].body.preferences = Undefined THEN Undefined
    ELSE req[r].body.preferences[f]

\* the key of the WHERE clause a must-have field sets
WhereKey ==
    [ categoryId |-> "categoryId", minPrice |-> "priceGte", maxPrice |-> "priceLte",
      minRoi |-> "roiGte", minArea |-> "areaGte",
      maxDistanceFromHighway |-> "distanceLte" ]

\* the criterion a preference triggers
CriterionOf ==
    [ budget |-> "price", roiPercent |-> "roi", areaSqft |-> "area",
      maxDistanceFromHighway |-> "distance" ]

HasMalformed(r) ==
    \/ \E f \in NumericMustHaveFields : SuppliedMustHave(r, f) \in MalformedValues
    \/ \E f \in NumericPreferenceFields : SuppliedPreference(r, f) \in MalformedValues

\* C18: a numeric must-have or preference value that fails to parse is absent
\* after sanitizing, never zero: it sets no bound in the catalog query, it
\* activates no criterion, and the request is not failed by it; 1,200.50
\* parses to 1200.5.  A preferred coordinate that fails to parse is absent
\* too, so a preferred location text beside it is sent to the geocoder, whose
\* answer then fills both coordinates.
C18_ParseFailureIsAbsent ==
    \A r \in RequestIds :
        (pc[r] # "start" /\ ~SanitizeThrows(Source(req[r])))
            => /\ \A f \in NumericMustHaveFields :
                     SuppliedMustHave(r, f) \in MalformedValues
                         => /\ hMustHave[r][f] = None
                            /\ IsSome(hWhere[r]) => Val(hWhere[r])[WhereKey[f]] = None
               /\ \A f \in NumericPreferenceFields :
                     SuppliedPreference(r, f) \in MalformedValues
                         => /\ f \in {"latitude", "longitude"} /\ IsSome(hPreferences[r].location)
                                  => geoCalls[r] = 1
                            /\ f \in {"latitude", "longitude"} /\ hPreferences[r].location = None
                                  => hPreferences[r][f] = None
                            /\ f \notin {"latitude", "longitude"}
                                  => hPreferences[r][f] = None
                            /\ f \in DOMAIN CriterionOf
                                  => ~IsActive(CriterionOf[f], hPreferences[r])
               /\ SuppliedMustHave(r, "maxPrice")
                     = Str(<<"1", ",", "2", "0", "0", ".", "5", "0">>)
                     => hMustHave[r].maxPrice = Some(120050)
               /\ (HasMalformed(r) /\ pc[r] = "done" /\ response[r] = ServerError)
                     => (geoCalls[r] = 1 \/ catalogCalls[r] = 1)

\* the request whose numeric fields all fail to parse, answered 200 with
\* every row of the catalog and no criterion but location active
C18_Witness ==
    \E r \in RequestIds :
        /\ req[r] = Post(MalformedMustHave, MalformedPreferences, Undefined, Undefined)
        /\ Is200(r)
        /\ Len(response[r].data) = Len(catalog)
        /\ hMustHave[r].maxPrice = Some(120050)
        /\ \A i \in 1..Len(response[r].data) :
              Len(response[r].data[i].explanation) = 1


---------------------------------------------------------------------------
(* Properties of the hard-filter stage: absent fields and zero             *)

LowerBounds == { "minPrice", "minRoi", "minArea" }
UpperBounds == { "maxPrice", "maxDistanceFromHighway" }

\* the listing field a numeric bound is compared with
BoundedField ==
    [ minPrice |-> "priceNpr", maxPrice |-> "priceNpr", minRoi |-> "roiPercent",
      minArea |-> "areaSqft", maxDistanceFromHighway |-> "distanceFromHighway" ]

Kept(L) == \E j \in 1..Len(fOut) : fOut[j] = L

\* zero compared with the bound
ZeroWithin(b, M) ==
    IF b \in LowerBounds THEN 0 >= Val(M[b]) ELSE 0 <= Val(M[b])

\* C19: whenever a numeric bound of mustHave is present, a bound of 0 included,
\* a listing whose corresponding field is absent is excluded, while a listing
\* whose field is 0 and that meets every other constraint is kept exactly when
\* 0 is within the bound; a listing with absent price is excluded if either
\* minPrice or maxPrice is present.
C19_AbsentIsNotZero ==
    fPhase # "input" =>
        \A i \in 1..Len(fProps) :
            /\ \A b \in LowerBounds \cup UpperBounds :
                  IsSome(fMustHave[b]) =>
                      /\ fProps[i][BoundedField[b]] = None => ~Kept(fProps[i])
                      /\ ( /\ fProps[i][BoundedField[b]] = Some(0)
                           /\ SatisfiesAll(fProps[i], [fMustHave EXCEPT ![b] = None]) )
                            => (Kept(fProps[i]) <=> ZeroWithin(b, fMustHave))
            /\ ( /\ fProps[i].priceNpr = None
                 /\ (IsSome(fMustHave.minPrice) \/ IsSome(fMustHave.maxPrice)) )
                  => ~Kept(fProps[i])

\* under the bound minRoi = 0 alone, a listing without ROI has been excluded
\* and a listing with ROI 0 kept
C19_Witness ==
    /\ fPhase = "filtered"
    /\ fMustHave.minRoi = Some(0)
    /\ NumActive(fMustHave) = 1
    /\ \E i \in 1..Len(fProps) : fProps[i].roiPercent = None /\ ~Kept(fProps[i])
    /\ \E i \in 1..Len(fProps) : fProps[i].roiPercent = Some(0) /\ Kept(fProps[i])


---------------------------------------------------------------------------
(* Properties of the scoring stage: rounding and aggregation               *)

\* n is the integer nearest to num / den (den > 0), a half going up
NearestHalfUp(n, num, den) ==
    /\ den * (2 * n - 1) <= 2 * num
    /\ 2 * num < den * (2 * n + 1)

\* the exact points of the k-th criterion for a listing that has its field,
\* as <<numerator, denominator>>
ExactPoints(k) ==
    LET weight == StatedWeights[CriterionOrder[k]]
        field == Val(FieldOf(CriterionOrder[k], sProperty))
        preferred == Val(PreferenceOf(CriterionOrder[k], sPreferences))
    IN  CASE k \in {2, 4} ->
               IF Abs(field - preferred) >= preferred THEN <<0, 1>>
               ELSE <<weight * (preferred - Abs(field - preferred)), preferred>>
          [] k = 3 ->
               IF field >= preferred THEN <<weight, 1>>
               ELSE IF field <= 0 THEN <<0, 1>>
               ELSE <<weight * field, preferred>>
          [] k = 5 ->
               IF field <= preferred THEN <<weight, 1>>
               ELSE IF field - preferred >= preferred THEN <<0, 1>>
               ELSE <<weight * (2 * preferred - field), preferred>>

\* C20: each criterion's points are rounded to 2 decimals when awarded, the
\* returned score is the sum of those rounded points, and matchPercentage is
\* 0 when maxPossible = 0 and otherwise 100 * score / maxPossible rounded to
\* the nearest integer with halves rounded up, computed from the same sum.
\* (Points are held in hundredths, so a multiple of 0.01 is an integer here.)
C20_RoundedPerCriterion ==
    sPhase = "scored" =>
        /\ Len(sResult.explanation) = Cardinality(ActiveUpTo(5, sPreferences))
        /\ \A k \in 2..5 :
              (IsActive(CriterionOrder[k], sPreferences) /\ ~Unscorable(k))
                  => NearestHalfUp(EntryOf(k).points, ExactPoints(k)[1], ExactPoints(k)[2])
        /\ sResult.score = PointsTotal(sResult.explanation)
        /\ sResult.maxPossible = 0 => sResult.matchPercentage = 0
        /\ sResult.maxPossible > 0
              => /\ sResult.matchPercentage % Scale = 0
                 /\ NearestHalfUp(sResult.matchPercentage \div Scale,
                                  100 * PointsTotal(sResult.explanation),
                                  sResult.maxPossible)

\* price and area alone are scored, each exact value ends below half a
\* hundredth, and the returned score is one hundredth less than the exact
\* total rounded once
C20_Witness ==
    /\ sPhase = "scored"
    /\ ActiveUpTo(5, sPreferences) = {2, 4}
    /\ ~Unscorable(2) /\ ~Unscorable(4)
    /\ ExactPoints(2)[2] = ExactPoints(4)[2]
    /\ sResult.score = sResult.explanation[1].points + sResult.explanation[2].points
    /\ NearestHalfUp(sResult.score + 1, ExactPoints(2)[1] + ExactPoints(4)[1],
                     ExactPoints(2)[2])


---------------------------------------------------------------------------
(* Properties of the request handler: the geocoder call                    *)

\* the preferences as the sanitizer leaves them, before any lookup
SanitizedPreferences(r) == sanitizePreferences(Source(req[r]).preferences)

SuppliedPair(r) ==
    /\ IsSome(SanitizedPreferences(r).latitude)
    /\ IsSome(SanitizedPreferences(r).longitude)

\* the lookup of request r came back with coordinates
LookupSucceeded(r) == hGeoAnswer[r] # <<>> /\ IsSome(hGeoAnswer[r][1])

\* every ranked entry of request r is the score of its listing against prefs
ScoredAgainst(r, prefs) ==
    \A i \in 1..Len(hRanked[r]) :
        hRanked[r][i].explanation
            = scoreProperty(hRanked[r][i].property, prefs).explanation

\* C21: the geocoder is called at most once per request, exactly when the
\* sanitized preference text is non-empty and a latitude or longitude is
\* absent; a pair supplied by the caller reaches scoreProperty unchanged, and
\* a successful lookup overwrites latitude and longitude together, a
\* coordinate the caller supplied alone included.
C21_GeocoderOnlyWhenNeeded ==
    \A r \in RequestIds :
        /\ geoCalls[r] <= 1
        /\ (pc[r] = "start" \/ SanitizeThrows(Source(req[r]))) => geoCalls[r] = 0
        /\ (pc[r] # "start" /\ ~SanitizeThrows(Source(req[r])))
              => /\ geoCalls[r] = 1
                    <=> /\ SanitizedPreferences(r).location # None
                        /\ Val(SanitizedPreferences(r).location) # <<>>
                        /\ ~SuppliedPair(r)
                 /\ SuppliedPair(r)
                       => /\ hPreferences[r] = SanitizedPreferences(r)
                          /\ ScoredAgainst(r, SanitizedPreferences(r))
                 /\ (LookupSucceeded(r) /\ pc[r] # "geocoding")
                       => /\ hPreferences[r].latitude = Some(Val(hGeoAnswer[r][1]).latitude)
                          /\ hPreferences[r].longitude = Some(Val(hGeoAnswer[r][1]).longitude)
                          /\ ScoredAgainst(r,
                                [SanitizedPreferences(r) EXCEPT
                                    !.latitude = Some(Val(hGeoAnswer[r][1]).latitude),
                                    !.longitude = Some(Val(hGeoAnswer[r][1]).longitude)])

\* a request that supplied a latitude alone has been answered 200 after one
\* lookup whose latitude replaced the caller's
C21_Witness ==
    \E r \in RequestIds :
        /\ Is200(r)
        /\ Len(hRanked[r]) > 0
        /\ geoCalls[r] = 1
        /\ IsSome(SanitizedPreferences(r).latitude)
        /\ SanitizedPreferences(r).longitude = None
        /\ LookupSucceeded(r)
        /\ hPreferences[r].latitude # SanitizedPreferences(r).latitude
        /\ hPreferences[r].latitude = Some(Val(hGeoAnswer[r][1]).latitude)


\* the request has minPrice > maxPrice, a preferred text and no full pair
InvalidBoundsAndLookup(r) ==
    /\ ~SanitizeThrows(Source(req[r]))
    /\ InvalidPriceBounds(SoloMustHave(r))
    /\ SanitizedPreferences(r).location # None
    /\ ~SuppliedPair(r)

\* C22: a request with minPrice > maxPrice, a non-empty preference text and
\* no full coordinate pair performs one geocoder call, has no response while
\* that call is pending, and is then answered with the 400 validation error,
\* with no catalog call.
C22_LookupBeforeValidation ==
    \A r \in RequestIds :
        (InvalidBoundsAndLookup(r) /\ pc[r] # "start")
            => /\ geoCalls[r] = 1
               /\ catalogCalls[r] = 0
               /\ pc[r] \in {"geocoding", "done"}
               /\ pc[r] = "geocoding" => response[r] = Undefined
               /\ pc[r] = "done" => response[r] = BadRequest


---------------------------------------------------------------------------
(* Properties of the request handler: one response per request             *)

Answered(r) == response[r] # Undefined

\* a step of the handler of request r threw
Threw(r) ==
    \/ SanitizeThrows(Source(req[r]))
    \/ geoCalls[r] = 1 /\ hGeoAnswer[r] = <<>>
    \/ catalogCalls[r] = 1 /\ filterRuns[r] = 0

\* the response a finished request has
Outcome(r) ==
    IF Threw(r) THEN response[r] = ServerError
    ELSE IF InvalidPriceBounds(SoloMustHave(r)) THEN response[r] = BadRequest
    ELSE Is200(r)

\* C23: provided each collaborator call completes, every request is answered
\* exactly once: it is eventually answered, an answer is never replaced, a
\* request has an answer exactly when its handler has finished (so never
\* while the geocoder or the catalog call is pending), and the answer is 500
\* if a step threw, else 400 for invalid price bounds, else 200 with data and
\* pagination.
C23_ExactlyOneResponse ==
    /\ <>(\A r \in RequestIds : Answered(r))
    /\ [][\A r \in RequestIds : Answered(r) => response'[r] = response[r]]_vars
    /\ [](\A r \in RequestIds :
            /\ Answered(r) <=> pc[r] = "done"
            /\ pc[r] = "done" => Outcome(r))

\* one request answered 200 after a lookup and a catalog call, the other 500
\* after its catalog call was rejected
C23_Witness ==
    \E r, o \in RequestIds :
        /\ Is200(r) /\ geoCalls[r] = 1 /\ catalogCalls[r] = 1
        /\ response[o] = ServerError /\ catalogCalls[o] = 1 /\ filterRuns[o] = 0


---------------------------------------------------------------------------
(* Properties of the request handler: pagination                           *)

Units(x) == x.n \div Scale

\* ceil(total / limit) for total >= 0 and limit >= 1: the least k with
\* k * limit >= total
CeilOf(total, limit) ==
    CHOOSE k \in 0..total : k * limit >= total /\ (k = 0 \/ (k - 1) * limit < total)

\* the data of pages 1..n of the ranked list under one limit, concatenated
RECURSIVE PagesData(_, _, _)
PagesData(ranked, limit, n) ==
    IF n = 0 THEN <<>>
    ELSE PagesData(ranked, limit, n - 1) \o Paginate(ranked, Num(n * Scale), limit).data

\* the number of pages a 200 response reports: none when it is no number
PagesReported(r) ==
    IF IsNumber(response[r].pagination.totalPages)
    THEN Units(response[r].pagination.totalPages) ELSE 0

\* the response of request r describes page `page` of its ranked list
DescribesPage(r, page, limit, total) ==
    /\ response[r].pagination.totalPages = Num(Max(1, CeilOf(total, limit)) * Scale)
    /\ response[r].data
          = SubSeq(hRanked[r], (page - 1) * limit + 1, Min(page * limit, total))
    /\ Len(response[r].data) <= limit
    /\ response[r].pagination.hasPrev <=> page > 1
    /\ response[r].pagination.hasNext <=> page * limit < total
    /\ page > Units(response[r].pagination.totalPages)
          => response[r].data = <<>> /\ ~response[r].pagination.hasNext

\* C24: in a 200 response total is the number of listings that passed the
\* hard filter, totalPages = max(1, ceil(total / limit)), data is the slice of
\* the ranked list at offset (page - 1) * limit of length at most limit,
\* hasPrev iff page > 1, hasNext iff page * limit < total; under the request's
\* limit the data of pages 1..totalPages concatenated is the whole ranked list,
\* and a page beyond totalPages has empty data and hasNext false.
C24_PaginationConsistent ==
    \A r \in RequestIds :
        Is200(r) =>
            /\ response[r].pagination.total = Num(Len(hRanked[r]) * Scale)
            /\ Len(hRanked[r]) = Len(applyHardFilters(hCandidates[r], hMustHave[r]))
            /\ (IsNumber(hPage[r]) /\ IsNumber(hLimit[r]))
                  => DescribesPage(r, Units(hPage[r]), Units(hLimit[r]), Len(hRanked[r]))
            /\ PagesData(hRanked[r], hLimit[r], PagesReported(r)) = hRanked[r]
            /\ \A beyond \in 1..2 :
                  /\ Paginate(hRanked[r], Num((PagesReported(r) + beyond) * Scale),
                              hLimit[r]).data = <<>>
                  /\ ~Paginate(hRanked[r], Num((PagesReported(r) + beyond) * Scale),
                               hLimit[r]).pagination.hasNext


---------------------------------------------------------------------------
(* Properties of the request handler: the tie-breaker                      *)

\* entry a comes before entry b by score and catalog order alone
PrecedesByScore(r, a, b) ==
    \/ a.score > b.score
    \/ /\ a.score = b.score
       /\ PositionOf(hCandidates[r], a.property.id)
             < PositionOf(hCandidates[r], b.property.id)

\* every listing of request r is scored against the request's preferences
\* and so against one maxPossible
SameMaxPossible(r) ==
    /\ ScoredAgainst(r, hPreferences[r])
    /\ \A i \in 1..Len(hRanked[r]) :
          scoreProperty(hRanked[r][i].property, hPreferences[r]).maxPossible
              = ActiveWeight(hPreferences[r])

\* C25: within one request all listings are scored against the same
\* preferences and the same maxPossible, two ranked entries with equal score
\* have equal matchPercentage, and the ranked order is score descending with
\* entries of equal score in catalog order.
C25_TieBreakerNeverDecides ==
    \A r \in RequestIds :
        Is200(r) =>
            /\ SameMaxPossible(r)
            /\ \A i, j \in 1..Len(hRanked[r]) :
                  hRanked[r][i].score = hRanked[r][j].score
                      => hRanked[r][i].matchPercentage = hRanked[r][j].matchPercentage
            /\ \A i, j \in 1..Len(hRanked[r]) :
                  i < j => PrecedesByScore(r, hRanked[r][i], hRanked[r][j])

====
